---- MODULE Spec2Model ----
(***************************************************************************)
(* Model of the parallel-scan / table-copy engine of dyc (src/client.go):  *)
(* Client.ParallelScanIterator with its segment workers, and               *)
(* Client.CopyTable with its producer, writer workers, supervisor and      *)
(* control loop.  Every goroutine is a process with a program counter; a   *)
(* Go select is one step that picks any case that is ready in the state    *)
(* where it is taken, and its default only when no case is ready.          *)
(***************************************************************************)
EXTENDS Integers, Sequences, FiniteSets, TLC

\* ---------------------------------------------------------------- bounds
\* segmentCount / workers argument of ParallelScanIterator and CopyTable
Workers == 2

\* most pages the page source yields for one segment of a scan
MaxPages == 2

\* most pages the page source yields for one segment of the copied table
CopyMaxPages == 1

\* rows carried by every page of the source table (copy job)
RowsPerPage == 1

\* most write requests handed to one BatchWriter call
MaxRequests == 51

\* most chaining calls made on one builder
MaxChain == 2

\* most inputs handed to one expression call
MaxInputs == 2

\* most items one batch-write response reports as unprocessed
MaxUnprocessed == 2

\* most responses of one run that report unprocessed items
MaxRetries == 2

\* most items the scanned table holds
MaxItems == 5

\* most items the store evaluates for one page
MaxPageSize == 3

\* largest client-side limit a caller sets
MaxLimit == 3

\* ------------------------------------------------------- program constants
\* chunkSize := 25 in ChunkWriteRequests
ChunkSize == 25

\* errChan := make(chan error, 1) in ParallelScanIterator
ErrChanCap == 1

Segs == 0 .. (Workers - 1)

Writers == 0 .. (Workers - 1)

\* errChan := make(chan error, workers) in CopyTable
CopyErrChanCap == Workers

\* dataChan := make(chan map[string]*dynamodb.AttributeValue, workers)
DataChanCap == Workers

\* ------------------------------------------------------------ error values
\* An error is a pair <<kind, origin>>.
Nil == <<"nil", -1>>

\* ctx.Err() of a cancelled context (context.Canceled); a request issued on
\* a cancelled context fails with the same cancellation.
Canceled == <<"canceled", -1>>

\* errors.New("exit early"): the worker's internal sentinel
ExitEarly == <<"exit early", -1>>

\* an error returned by the page source for segment w
SrcErr(w) == <<"source", w>>

\* an error returned by the caller's callback on a page of segment w
CbErr(w) == <<"callback", w>>

\* an error returned by PutItemWithContext for a row
PutErr(r) == <<"put", r>>

NoHolder == -1

NoSegment == -1

\* rows of the source table: <<segment, page, index>> flattened to a number,
\* page by page
RowId(w, p, i) == ((p - 1) * Workers + w) * RowsPerPage + i

\* the rows of a source table whose every segment holds CopyMaxPages pages
Rows == 1 .. (Workers * CopyMaxPages * RowsPerPage)

\* the rows of a source table whose segment 0 holds one page more, so that
\* the table holds more rows than the row channel has room for
DeepRows == 1 .. ((Workers * CopyMaxPages + 1) * RowsPerPage)

PageRows(w, p) == { RowId(w, p, i) : i \in 1 .. RowsPerPage }

NoRow == 0

\* ---------------------------------------------------------------- the store
\* table names: CopyTable(ctx, dst, src, ...) is called with dst = "B" and
\* src = "A"; BatchWriter and the deleters are called with table "B"
SrcTable == "A"

DstTable == "B"

\* the primary key attributes of both tables
KeyFields == { "PK", "SK" }

\* the item of the source table behind row r
Item(r) == [PK |-> "a", SK |-> r, data |-> "fresh"]

\* an item the destination holds before the copy: same key as row r, other data
Stale(r) == [PK |-> "a", SK |-> r, data |-> "stale"]

\* extractFields: the attributes of data named in fields, absent ones skipped
extractFields(data, fields) ==
    [f \in (fields \cap DOMAIN data) |-> data[f]]

\* PKSKExtractor
PKSKExtractor(attrs) == extractFields(attrs, { "PK", "SK" })

\* a put that keeps the item already stored under the same key
PutItemKeepOld(tbl, item) == tbl \cup { item }

\* PutItem of the store: the item replaces the one with the same primary key
PutItem(tbl, item) ==
    { x \in tbl : extractFields(x, KeyFields) # extractFields(item, KeyFields) }
        \cup { item }

\* DeleteItem of the store: the item with that primary key, if any, goes
DeleteItem(tbl, key) ==
    { x \in tbl : extractFields(x, KeyFields) # key }

\* the PutItemInput built by onCopyData
PutItemInput(data, dst) == [Item |-> data, TableName |-> dst]

\* rows of the source table, and what the destination holds before a copy:
\* one item under a key of the source and one under a key of its own
SourceItems == { Item(r) : r \in Rows }

\* the items of the deeper source table
DeepItems == { Item(r) : r \in DeepRows }

DstBefore == { Stale(1), Stale(0) }

VARIABLES
    job,            \* "scan": ParallelScanIterator called directly; "copy": CopyTable
    noLock,         \* noLock argument of ParallelScanIterator
    parentDone,     \* the caller's context has been cancelled
    \* ---- ParallelScanIterator
    input,          \* the caller's *dynamodb.ScanInput (TotalSegments field)
    arg,            \* per worker: its own copy of the ScanInput
    wpc,            \* per worker: program counter
    page,           \* per worker: pages received so far
    last,           \* per worker: the page in hand has no LastEvaluatedKey
    e,              \* per worker: value returned by fn for the page in hand
    werr,           \* per worker: err returned by ScanIterator
    fnIdx,          \* per worker: next row of the page the copy callback sends
    mu,             \* holder of the sync.Mutex, or NoHolder
    errChan,        \* the scan's error channel (capacity 1)
    wg,             \* the scan's WaitGroup counter
    waiter,         \* the wait-and-cancel goroutine
    cpc,            \* the coordinator (body of ParallelScanIterator)
    spawned,        \* loop index of the spawn loop
    workerCancelled,\* workerCtx's own cancel() has been called
    scanCancels,    \* number of calls of workerCtx's cancel()
    result,         \* value returned by ParallelScanIterator
    requests,       \* history: <<Segment, TotalSegments>> of every page request sent
    produced,       \* history: errors returned by a page source or callback
    \* ---- CopyTable
    onError,        \* "nil" (abort policy) or "set" (caller's policy)
    copyCancelled,  \* ctx's own cancel() has been called
    copyCancels,    \* number of calls of ctx's cancel()
    policyCancelled,\* history: the caller's policy called its cancelFunc
    copyErrChan,    \* CopyTable's error channel (capacity workers)
    dataChan,       \* the row channel (capacity workers)
    dataClosed,     \* close(dataChan) has happened
    readComplete,   \* close(readComplete) has happened
    working,        \* the live-writer counter
    tpc,            \* per writer: program counter
    trow,           \* per writer: the row in hand
    terr,           \* per writer: err of the put in hand
    ppc,            \* the producer goroutine
    perr,           \* err the producer got from ParallelScanIterator
    wg2,            \* CopyTable's WaitGroup counter
    complete,       \* close(complete) has happened
    kpc,            \* the control loop (body of CopyTable)
    kerr,           \* the error the control loop took from the channel
    copyResult,     \* value returned by CopyTable
    yielded,        \* history: rows the source scan yielded
    puts,           \* history: per row, successful puts to the destination
    attempts,       \* history: per row, put calls issued
    putFailed,      \* history: rows whose put returned an error
    handled,        \* history: errors passed to onError
    panicked,       \* a send on the closed row channel has panicked
    \* ---- the store
    tables,         \* per table name: the set of items it holds
    run,            \* which of two successive CopyTable calls is running
    firstDst,       \* the destination table when the first call returned
    \* ---- BatchWriter
    bwInput,        \* the requests argument of the outermost BatchWriter call
    stack,          \* the activation records of BatchWriter, innermost last
    bwResult,       \* (count, error) returned by the outermost call
    calls,          \* history: the batch-write calls issued, in order
    retries,        \* responses so far that reported unprocessed items
    applied,        \* history: the requests the store has applied, in order
    \* ---- the page iterators
    itKind,         \* "plain": QueryIterator/ScanIterator; "v2": the V2 iterators
    wantLimit,      \* the limit the caller asks for, or NoLimit
    inLimit,        \* the Limit field of the caller's input
    hasLimit,       \* hasLimit of the iterator / of limitModifier
    limit,          \* limit of the iterator / of limitModifier
    seen,           \* seen of the iterator / of limitModifier
    pageSize,       \* items the store evaluates per page
    startKey,       \* the ExclusiveStartKey field of the caller's input
    token,          \* the pager's token for the next request
    more,           \* the pager's HasNextPage
    ipc,            \* the iterator's program counter
    cur,            \* the output handed to the callback
    pageError,      \* pageError of the iterator
    itErr,          \* err returned by the pager
    itResult,       \* value returned by the iterator
    delivered,      \* history: the outputs handed to the callback, in order
    fetched,        \* history: page requests sent
    submitted,      \* history: the request lists the deleter gave BatchWriter
    callNo,         \* 1, or 2 when the caller has resumed from the token
    firstRows,      \* the rows delivered by the call before the resumption
    \* ---- the Builder
    builder,        \* the Builder struct
    bcall,          \* history: the last chaining call and the error carried before it
    bout            \* history: the last terminal call and what it returned

scanVars == << input, arg, wpc, page, last, e, werr, fnIdx, mu, errChan, wg,
               waiter, cpc, spawned, workerCancelled, scanCancels, result,
               requests, produced >>

copyVars == << onError, copyCancelled, copyCancels, policyCancelled,
               copyErrChan, dataChan, dataClosed, readComplete, working, tpc,
               trow, terr, ppc, perr, wg2, complete, kpc, kerr, copyResult,
               yielded, puts, attempts, putFailed, handled, panicked >>

storeVars == << tables, run, firstDst >>

batchVars == << bwInput, stack, bwResult, calls, retries, applied >>

iterVars == << itKind, wantLimit, inLimit, hasLimit, limit, seen, pageSize,
               startKey, token, more, ipc, cur, pageError, itErr, itResult,
               delivered, fetched, submitted, callNo, firstRows >>

builderVars == << builder, bcall, bout >>

seqVars == << batchVars, iterVars, builderVars >>

\* the state of the scan and copy engines and of the builder, which the
\* sequential client operations leave alone
engineVars == << noLock, parentDone, scanVars, copyVars, run, firstDst,
                 builderVars >>

vars == << job, noLock, parentDone, scanVars, copyVars, storeVars, seqVars >>

\* the pages of rows that segment w of table A holds
PagesOf(w) ==
    Cardinality({ p \in 1 .. (CopyMaxPages + 1) :
                    \A r \in PageRows(w, p) : Item(r) \in tables[SrcTable] })

\* the page bound of segment w in the job that runs
PageBound(w) == IF job = "scan" THEN MaxPages ELSE PagesOf(w)

\* variant: a cancel function that leaves the context as it was
cancelNoOp(done) == done

\* the cancel function of context.WithCancel: the context is done once it
\* has been called, whether or not it was done before
cancel(done) == TRUE

\* ------------------------------------------------------------- contexts
\* ctx of CopyTable: context.WithCancel(parentCtx)
CtxDone == copyCancelled \/ parentDone

\* workerCtx of ParallelScanIterator: context.WithCancel(ctx)
WorkerCtxDone == workerCancelled \/ CtxDone

\* ------------------------------------------------------- select helpers
\* a buffered channel accepts a send without blocking
HasRoom(ch, cap) == Len(ch) < cap

\* variant: no default case, the select waits for one of its communications
DefaultNever(ch, done) == FALSE

\* variant: the default case treated as an ordinary, always-ready case
DefaultAlways(ch, done) == TRUE

\* the default case of the workers' error-reporting selects
\* (case <-ctx.Done / case errChan <- e / default): taken only when neither
\* of the two communications can proceed
DefaultReady(ch, done) == ~done /\ ~HasRoom(ch, ErrChanCap)

\* variant: a lock that never makes anybody wait
MutexAlways(m) == TRUE

\* mu.Lock() proceeds only when nobody holds the mutex
MutexAcquirable(m) == m = NoHolder

\* variant: the workers share one ScanInput (a pointer instead of a copy)
AssignSegmentShared(args, idx) ==
    [w \in DOMAIN args |-> [args[w] EXCEPT !.Segment = idx]]

\* arg.Segment = aws.Int64(int64(idx)) on the worker's own copy of the input
AssignSegment(args, idx) == [args EXCEPT ![idx].Segment = idx]

\* go c.parallelScanWorker(workerCtx, i, *input, ...): the worker gets a copy
SpawnArg(args, idx, in) ==
    [args EXCEPT ![idx] = [TotalSegments |-> in.TotalSegments, Segment |-> NoSegment]]

\* -------------------------------------------------- ParallelScanIterator
\* lines 236-243: errChan, workerCtx, wg.Add(workers), input.TotalSegments
PSI_Setup ==
    /\ cpc = "setup"
    /\ wg' = Workers
    /\ input' = [input EXCEPT !.TotalSegments = Workers]
    /\ spawned' = 0
    /\ cpc' = "spawn"
    /\ UNCHANGED << arg, wpc, page, last, e, werr, fnIdx, mu, errChan, waiter,
                    workerCancelled, scanCancels, result, requests, produced >>
    /\ UNCHANGED << seqVars, storeVars, job, noLock, parentDone, copyVars >>

\* lines 245-252: one iteration of the spawn loop; after the last one the
\* wait-and-cancel goroutine is started and the coordinator reaches its select
PSI_Spawn ==
    /\ cpc = "spawn"
    /\ spawned < Workers
    /\ arg' = SpawnArg(arg, spawned, input)
    /\ wpc' = [wpc EXCEPT ![spawned] = "start"]
    /\ spawned' = spawned + 1
    /\ IF spawned + 1 = Workers
          THEN cpc' = "select" /\ waiter' = "wait"
          ELSE cpc' = "spawn" /\ waiter' = waiter
    /\ UNCHANGED << input, page, last, e, werr, fnIdx, mu, errChan, wg,
                    workerCancelled, scanCancels, result, requests, produced >>
    /\ UNCHANGED << seqVars, storeVars, job, noLock, parentDone, copyVars >>

\* lines 249-252: wg.Wait(); cancel()
PSI_WaitCancel ==
    /\ waiter = "wait"
    /\ wg = 0
    /\ waiter' = "done"
    /\ workerCancelled' = cancel(workerCancelled)
    /\ scanCancels' = scanCancels + 1
    /\ UNCHANGED << input, arg, wpc, page, last, e, werr, fnIdx, mu, errChan,
                    wg, cpc, spawned, result, requests, produced >>
    /\ UNCHANGED << seqVars, storeVars, job, noLock, parentDone, copyVars >>

\* lines 254-256 and 240: case err := <-errChan: return err; deferred cancel()
PSI_SelectErr ==
    /\ cpc = "select"
    /\ errChan # << >>
    /\ result' = Head(errChan)
    /\ errChan' = Tail(errChan)
    /\ cpc' = "returned"
    /\ workerCancelled' = cancel(workerCancelled)
    /\ scanCancels' = scanCancels + 1
    /\ UNCHANGED << input, arg, wpc, page, last, e, werr, fnIdx, mu, wg,
                    waiter, spawned, requests, produced >>
    /\ UNCHANGED << seqVars, storeVars, job, noLock, parentDone, copyVars >>

\* lines 257-260 and 240: case <-workerCtx.Done(): return nil; deferred cancel()
PSI_SelectDone ==
    /\ cpc = "select"
    /\ WorkerCtxDone
    /\ result' = Nil
    /\ cpc' = "returned"
    /\ workerCancelled' = cancel(workerCancelled)
    /\ scanCancels' = scanCancels + 1
    /\ UNCHANGED << input, arg, wpc, page, last, e, werr, fnIdx, mu, errChan,
                    wg, waiter, spawned, requests, produced >>
    /\ UNCHANGED << seqVars, storeVars, job, noLock, parentDone, copyVars >>

\* ---------------------------------------------------- parallelScanWorker
\* line 192: arg.Segment = aws.Int64(int64(idx))
PSW_AssignSegment(w) ==
    /\ wpc[w] = "start"
    /\ arg' = AssignSegment(arg, w)
    /\ wpc' = [wpc EXCEPT ![w] = "scan"]
    /\ UNCHANGED << input, page, last, e, werr, fnIdx, mu, errChan, wg,
                    waiter, cpc, spawned, workerCancelled, scanCancels, result,
                    requests, produced >>
    /\ UNCHANGED << seqVars, storeVars, job, noLock, parentDone, copyVars >>

\* the callback returned nil for the page in hand: ScanPages asks for the
\* next page, or, after the last page, ScanIterator returns nil and the
\* worker ends (err == nil, deferred wg.Done())
AfterPage(w) ==
    IF last[w]
       THEN /\ wpc' = [wpc EXCEPT ![w] = "done"]
            /\ wg' = wg - 1
       ELSE /\ wpc' = [wpc EXCEPT ![w] = "scan"]
            /\ wg' = wg

\* lines 264-269: ScanPagesWithContext issues one page request on workerCtx.
\* On a cancelled context the request fails before reaching the store.
PSW_ScanPageCancelled(w) ==
    /\ wpc[w] = "scan"
    /\ WorkerCtxDone
    /\ werr' = [werr EXCEPT ![w] = Canceled]
    /\ wpc' = [wpc EXCEPT ![w] = "final"]
    /\ UNCHANGED << input, arg, page, last, e, fnIdx, mu, errChan, wg, waiter,
                    cpc, spawned, workerCancelled, scanCancels, result,
                    requests, produced >>
    /\ UNCHANGED << seqVars, storeVars, job, noLock, parentDone, copyVars >>

\* the page source answers the request with an error
PSW_ScanPageError(w) ==
    /\ wpc[w] = "scan"
    /\ ~WorkerCtxDone
    /\ requests' = requests \cup { << arg[w].Segment, arg[w].TotalSegments >> }
    /\ werr' = [werr EXCEPT ![w] = SrcErr(w)]
    /\ produced' = produced \cup { SrcErr(w) }
    /\ wpc' = [wpc EXCEPT ![w] = "final"]
    /\ UNCHANGED << input, arg, page, last, e, fnIdx, mu, errChan, wg, waiter,
                    cpc, spawned, workerCancelled, scanCancels, result >>
    /\ UNCHANGED << seqVars, storeVars, job, noLock, parentDone, copyVars >>

\* the page source answers with a page (isLast: no LastEvaluatedKey); the
\* worker's callback starts: lines 194-198.  In a copy job the pages are
\* those of table A, whose segment w holds PageBound(w) pages of rows, so
\* the last page is the one after which no row of the segment remains
PSW_ScanPage(w) ==
    /\ wpc[w] = "scan"
    /\ ~WorkerCtxDone
    /\ page[w] < PageBound(w)
    /\ \E isLast \in BOOLEAN :
          /\ (page[w] + 1 = PageBound(w)) => isLast
          /\ (job = "copy" /\ isLast) => (page[w] + 1 = PageBound(w))
          /\ last' = [last EXCEPT ![w] = isLast]
    /\ requests' = requests \cup { << arg[w].Segment, arg[w].TotalSegments >> }
    /\ page' = [page EXCEPT ![w] = page[w] + 1]
    /\ fnIdx' = [fnIdx EXCEPT ![w] = 1]
    /\ yielded' = IF job = "copy" THEN yielded \cup PageRows(w, page[w] + 1)
                                  ELSE yielded
    /\ IF noLock
          THEN /\ wpc' = [wpc EXCEPT ![w] = "fn"]
          ELSE /\ wpc' = [wpc EXCEPT ![w] = "lock"]
    /\ UNCHANGED << input, arg, e, werr, mu, errChan, wg, waiter, cpc, spawned,
                    workerCancelled, scanCancels, result, produced >>
    /\ UNCHANGED << seqVars, storeVars, job, noLock, parentDone >>
    /\ UNCHANGED << onError, copyCancelled, copyCancels, policyCancelled,
                    copyErrChan, dataChan, dataClosed, readComplete, working,
                    tpc, trow, terr, ppc, perr, wg2, complete, kpc, kerr,
                    copyResult, puts, attempts, putFailed, handled, panicked >>

\* line 198: mu.Lock(), then fn is entered
PSW_Lock(w) ==
    /\ wpc[w] = "lock"
    /\ MutexAcquirable(mu)
    /\ mu' = w
    /\ wpc' = [wpc EXCEPT ![w] = "fn"]
    /\ UNCHANGED << input, arg, page, last, e, werr, fnIdx, errChan, wg,
                    waiter, cpc, spawned, workerCancelled, scanCancels, result,
                    requests, produced >>
    /\ UNCHANGED << seqVars, storeVars, job, noLock, parentDone, copyVars >>

\* lines 196 / 199-200: the caller's callback returns (nil or an error of
\* its own), followed by mu.Unlock() when the lock was taken
PSW_FnReturn(w) ==
    /\ job = "scan"
    /\ wpc[w] = "fn"
    /\ \E r \in { Nil, CbErr(w) } :
          /\ e' = [e EXCEPT ![w] = r]
          /\ produced' = IF r = Nil THEN produced ELSE produced \cup { r }
    /\ mu' = IF noLock THEN mu ELSE NoHolder
    /\ wpc' = [wpc EXCEPT ![w] = "check"]
    /\ UNCHANGED << input, arg, page, last, werr, fnIdx, errChan, wg, waiter,
                    cpc, spawned, workerCancelled, scanCancels, result,
                    requests >>
    /\ UNCHANGED << seqVars, storeVars, job, noLock, parentDone, copyVars >>

\* lines 203-208: select { case <-ctx.Done(): return ctx.Err(); default: }
\* and, with e == nil, line 220: return nil
PSW_CheckCtx(w) ==
    /\ wpc[w] = "check"
    /\ IF WorkerCtxDone
          THEN /\ werr' = [werr EXCEPT ![w] = Canceled]
               /\ wpc' = [wpc EXCEPT ![w] = "final"]
               /\ wg' = wg
          ELSE IF e[w] # Nil
                  THEN /\ wpc' = [wpc EXCEPT ![w] = "report"]
                       /\ werr' = werr
                       /\ wg' = wg
                  ELSE /\ AfterPage(w)
                       /\ werr' = werr
    /\ UNCHANGED << input, arg, page, last, e, fnIdx, mu, errChan, waiter, cpc,
                    spawned, workerCancelled, scanCancels, result, requests,
                    produced >>
    /\ UNCHANGED << seqVars, storeVars, job, noLock, parentDone, copyVars >>

\* lines 210-213: e != nil, case <-ctx.Done(): return ctx.Err()
PSW_ReportCtxDone(w) ==
    /\ wpc[w] = "report"
    /\ WorkerCtxDone
    /\ werr' = [werr EXCEPT ![w] = Canceled]
    /\ wpc' = [wpc EXCEPT ![w] = "final"]
    /\ UNCHANGED << input, arg, page, last, e, fnIdx, mu, errChan, wg, waiter,
                    cpc, spawned, workerCancelled, scanCancels, result,
                    requests, produced >>
    /\ UNCHANGED << seqVars, storeVars, job, noLock, parentDone, copyVars >>

\* lines 214 and 220: case errChan <- e: falls out of the select, return nil,
\* so paging goes on
PSW_ReportSend(w) ==
    /\ wpc[w] = "report"
    /\ HasRoom(errChan, ErrChanCap)
    /\ errChan' = Append(errChan, e[w])
    /\ AfterPage(w)
    /\ UNCHANGED << input, arg, page, last, e, werr, fnIdx, mu, waiter, cpc,
                    spawned, workerCancelled, scanCancels, result, requests,
                    produced >>
    /\ UNCHANGED << seqVars, storeVars, job, noLock, parentDone, copyVars >>

\* lines 215-216: default: return errors.New("exit early")
PSW_ReportDefault(w) ==
    /\ wpc[w] = "report"
    /\ DefaultReady(errChan, WorkerCtxDone)
    /\ werr' = [werr EXCEPT ![w] = ExitEarly]
    /\ wpc' = [wpc EXCEPT ![w] = "final"]
    /\ UNCHANGED << input, arg, page, last, e, fnIdx, mu, errChan, wg, waiter,
                    cpc, spawned, workerCancelled, scanCancels, result,
                    requests, produced >>
    /\ UNCHANGED << seqVars, storeVars, job, noLock, parentDone, copyVars >>

\* lines 223-226 and 228-229: err != nil, the worker returns without sending
\* (case <-ctx.Done() or default); deferred wg.Done()
PSW_FinalReturn(w) ==
    /\ wpc[w] = "final"
    /\ WorkerCtxDone \/ DefaultReady(errChan, WorkerCtxDone)
    /\ wpc' = [wpc EXCEPT ![w] = "done"]
    /\ wg' = wg - 1
    /\ UNCHANGED << input, arg, page, last, e, werr, fnIdx, mu, errChan,
                    waiter, cpc, spawned, workerCancelled, scanCancels, result,
                    requests, produced >>
    /\ UNCHANGED << seqVars, storeVars, job, noLock, parentDone, copyVars >>

\* line 227: case errChan <- err; deferred wg.Done()
PSW_FinalSend(w) ==
    /\ wpc[w] = "final"
    /\ HasRoom(errChan, ErrChanCap)
    /\ errChan' = Append(errChan, werr[w])
    /\ wpc' = [wpc EXCEPT ![w] = "done"]
    /\ wg' = wg - 1
    /\ UNCHANGED << input, arg, page, last, e, werr, fnIdx, mu, waiter, cpc,
                    spawned, workerCancelled, scanCancels, result, requests,
                    produced >>
    /\ UNCHANGED << seqVars, storeVars, job, noLock, parentDone, copyVars >>

\* the caller cancels the context it passed in, while the operation runs
ParentCancel ==
    /\ ~parentDone
    /\ IF job = "scan" THEN cpc # "returned" ELSE kpc \notin { "returned", "panic" }
    /\ parentDone' = TRUE
    /\ UNCHANGED << seqVars, storeVars, job, noLock, scanVars, copyVars >>

\* ------------------------------------------------------------ initial state
ScanInit ==
    /\ input = [TotalSegments |-> 0]
    /\ arg = [w \in Segs |-> [TotalSegments |-> 0, Segment |-> NoSegment]]
    /\ wpc = [w \in Segs |-> "idle"]
    /\ page = [w \in Segs |-> 0]
    /\ last = [w \in Segs |-> FALSE]
    /\ e = [w \in Segs |-> Nil]
    /\ werr = [w \in Segs |-> Nil]
    /\ fnIdx = [w \in Segs |-> 1]
    /\ mu = NoHolder
    /\ errChan = << >>
    /\ wg = 0
    /\ waiter = "idle"
    /\ cpc = "setup"
    /\ spawned = 0
    /\ workerCancelled = FALSE
    /\ scanCancels = 0
    /\ result = Nil
    /\ requests = {}
    /\ produced = {}

CopyIdle ==
    /\ copyCancelled = FALSE
    /\ copyCancels = 0
    /\ policyCancelled = FALSE
    /\ copyErrChan = << >>
    /\ dataChan = << >>
    /\ dataClosed = FALSE
    /\ readComplete = FALSE
    /\ working = 0
    /\ trow = [k \in Writers |-> NoRow]
    /\ terr = [k \in Writers |-> Nil]
    /\ perr = Nil
    /\ complete = FALSE
    /\ kerr = Nil
    /\ copyResult = Nil
    /\ yielded = {}
    /\ puts = [r \in DeepRows |-> 0]
    /\ attempts = [r \in DeepRows |-> 0]
    /\ putFailed = {}
    /\ handled = {}
    /\ panicked = FALSE

\* the tables before the operation, and no second call yet
StoreInit ==
    /\ tables = [t \in { SrcTable, DstTable } |->
                    IF t = SrcTable THEN SourceItems ELSE DstBefore]
    /\ run = 1
    /\ firstDst = {}

\* no Limit field
NoLimit == -1

\* ---------------------------------------------------------------- Builder
\* src/builder.go.  A string is the sequence of its tokens ("" is << >>); a
\* map is a function on its keys (the empty map is << >>); a raw Go value
\* is a pair <<type, value>>.

\* the builder errors of src/errors.go
ErrClientNotSet == <<"client not set", -1>>

ErrBadKeyType == <<"strings are the only type of keys supported", -1>>

ErrKeyRequired == <<"key not set", -1>>

ErrBadKeyParams == <<"expected an even amount of additionalKVs parameters", -1>>

ErrUnsupportedType == <<"unsupported type", -1>>

ErrQueryMisMatch == <<"inputs don't match query", -1>>

\* no client: the nil *Client
NoClient == "nil"

\* m[k] = v on a Go map
MapSet(m, k, v) == [x \in (DOMAIN m) \cup { k } |-> IF x = k THEN v ELSE m[x]]

\* strconv.Itoa on the indices a bounded builder reaches
Itoa(n) == << "0", "1", "2", "3", "4", "5", "6", "7", "8", "9" >>[n + 1]

\* "#" followed by strconv.Itoa(n): the name placeholder of scan
Hash(n) == << "#0", "#1", "#2", "#3", "#4", "#5", "#6", "#7", "#8", "#9" >>[n + 1]

\* ":" followed by strconv.Itoa(n): the value placeholder of scan
Colon(n) == << ":0", ":1", ":2", ":3", ":4", ":5", ":6", ":7", ":8", ":9" >>[n + 1]

\* the tokens text/scanner reports as scanner.Char (-5): quoted names
Quoted == { "'f'", "'g'" }

\* strings.Trim(val, "'") on the quoted names
Trim(val) == CASE val = "'f'" -> "f" [] val = "'g'" -> "g"

\* typeToAttributeVal: a string or an int has an attribute value, a value of
\* any type outside the switch has none
typeToAttributeVal(raw) ==
    CASE raw[1] = "string" -> [val |-> <<"S", raw[2]>>, err |-> Nil]
      [] raw[1] = "int" -> [val |-> <<"N", Itoa(raw[2])>>, err |-> Nil]
      [] OTHER -> [val |-> << >>, err |-> ErrUnsupportedType]

\* NewBuilder()
NewBuilder ==
    [colsIdx |-> 0, valColsIdx |-> -1, cols |-> << >>, vals |-> << >>,
     keys |-> << >>, err |-> Nil, filterExpresion |-> << >>,
     updateExpression |-> << >>, keyExpression |-> << >>,
     conditionExpression |-> << >>, table |-> "", index |-> "", limit |-> 0,
     client |-> NoClient]

\* the loop of scan from token i on: s is the builder as the tokens before i
\* left it, out the text built so far, start the value index at entry
RECURSIVE scanFrom(_, _, _, _, _, _)
scanFrom(s, query, inputs, start, i, out) ==
    IF i > Len(query)
       THEN [s |-> s, updatedQuery |-> out, err |-> Nil]
       ELSE LET val == query[i] IN
            IF val \in Quoted
               THEN LET col == Hash(s.colsIdx + 1)
                        s1 == [s EXCEPT !.colsIdx = @ + 1,
                                        !.cols = MapSet(@, col, Trim(val))]
                    IN  scanFrom(s1, query, inputs, start, i + 1,
                                 Append(out, col))
            ELSE IF val = "?"
               THEN LET s1 == [s EXCEPT !.valColsIdx = @ + 1]
                        col == Colon(s1.valColsIdx)
                    IN  IF Len(inputs) <= s1.valColsIdx - start - 1
                           THEN [s |-> s1, updatedQuery |-> << >>,
                                 err |-> ErrQueryMisMatch]
                           ELSE LET attr == typeToAttributeVal(
                                              inputs[s1.valColsIdx - start])
                                IN  IF attr.err # Nil
                                       THEN [s |-> s1, updatedQuery |-> << >>,
                                             err |-> attr.err]
                                       ELSE scanFrom(
                                              [s1 EXCEPT !.vals =
                                                 MapSet(@, col, attr.val)],
                                              query, inputs, start, i + 1,
                                              Append(out, col))
            ELSE scanFrom(s, query, inputs, start, i + 1, Append(out, val))

\* Builder.scan: the builder it leaves, the parsed query and the error
scan(s, query, inputs) == scanFrom(s, query, inputs, s.valColsIdx, 1, << >>)

\* Builder.addExpression on the expression field named expression
addExpression(s, expression, separator, query, vals) ==
    LET r == scan(s, query, vals)
        res == << "(" >> \o r.updatedQuery \o << ")" >>
        s1 == [r.s EXCEPT !.err = r.err]
    IN  [s1 EXCEPT ![expression] =
            IF @ = << >> THEN res ELSE @ \o << separator >> \o res]

\* variant of update that runs fn whatever the builder carries
updateAlways(s, fn) == fn

\* Builder.update: fn is the builder as the function would leave it
update(s, fn) == IF s.err # Nil THEN s ELSE fn

\* Builder.Condition
Condition(s, query, vals) ==
    update(s, addExpression(s, "conditionExpression", "AND", query, vals))

\* Builder.OrCondition
OrCondition(s, query, vals) ==
    update(s, addExpression(s, "conditionExpression", "OR", query, vals))

\* Builder.WhereKey
WhereKey(s, query, vals) ==
    update(s, addExpression(s, "keyExpression", "AND", query, vals))

\* Builder.Where
Where(s, query, vals) ==
    update(s, addExpression(s, "filterExpresion", "AND", query, vals))

\* Builder.Update
Update(s, query, vals) ==
    update(s, addExpression(s, "updateExpression", "AND", query, vals))

\* Builder.OrWhere
OrWhere(s, query, vals) ==
    update(s, addExpression(s, "filterExpresion", "OR", query, vals))

\* Builder.toInQuery: column IN(?,?,...) with one ? per value
toInQuery(column, vals) ==
    << column, " IN(" >>
      \o [i \in 1 .. (IF Len(vals) = 0 THEN 0 ELSE 2 * Len(vals) - 1) |->
            IF i % 2 = 1 THEN "?" ELSE ","]
      \o << ")" >>

\* Builder.IN (IN is a reserved word)
BuilderIN(s, column, vals) == update(s, Where(s, toInQuery(column, vals), vals))

\* the loop of Key over additionalKVs from index i (1-based) on
RECURSIVE KeyPairs(_, _, _)
KeyPairs(s, additionalKVs, i) ==
    IF i > Len(additionalKVs)
       THEN s
       ELSE IF additionalKVs[i][1] # "string"
               THEN [s EXCEPT !.err = ErrBadKeyType]
               ELSE LET val == typeToAttributeVal(additionalKVs[i + 1])
                        s1 == [s EXCEPT !.err = val.err]
                    IN  IF val.err # Nil
                           THEN s1
                           ELSE KeyPairs(
                                  [s1 EXCEPT !.keys =
                                     MapSet(@, additionalKVs[i][2], val.val)],
                                  additionalKVs, i + 2)

\* Builder.Key
Key(s, keyName, value, additionalKVs) ==
    update(s,
       LET firstVal == typeToAttributeVal(value)
           s1 == [s EXCEPT !.err = firstVal.err]
       IN  IF firstVal.err # Nil
              THEN s1
              ELSE LET s2 == [s1 EXCEPT !.keys = MapSet(@, keyName, firstVal.val)]
                   IN  IF Len(additionalKVs) > 0 /\ Len(additionalKVs) % 2 # 0
                          THEN [s2 EXCEPT !.err = ErrBadKeyParams]
                          ELSE KeyPairs(s2, additionalKVs, 1))

\* Builder.Client
Client(s, client) == update(s, [s EXCEPT !.client = client])

\* Builder.Table
Table(s, tbl) == IF s.err # Nil THEN s ELSE [s EXCEPT !.table = tbl]

\* Builder.Limit
Limit(s, lim) == IF s.err # Nil THEN s ELSE [s EXCEPT !.limit = lim]

\* Builder.Index
Index(s, idx) == IF s.err # Nil THEN s ELSE [s EXCEPT !.index = idx]

\* the zero value of a request struct
NoInput == << >>

\* Builder.ToDelete
ToDelete(s) ==
    IF s.err # Nil
       THEN [input |-> NoInput, err |-> s.err]
    ELSE IF DOMAIN s.keys = {}
       THEN [input |-> NoInput, err |-> ErrKeyRequired]
    ELSE [input |-> [Key |-> s.keys, TableName |-> s.table,
                     ConditionExpression |-> s.conditionExpression,
                     ExpressionAttributeValues |-> s.vals,
                     ExpressionAttributeNames |-> s.cols],
          err |-> Nil]

\* Builder.ToQuery
ToQuery(s) ==
    IF s.err # Nil
       THEN [input |-> NoInput, err |-> s.err]
       ELSE [input |-> [KeyConditionExpression |-> s.keyExpression,
                        FilterExpression |-> s.filterExpresion,
                        ExpressionAttributeNames |-> s.cols,
                        ExpressionAttributeValues |-> s.vals,
                        Limit |-> IF s.limit > 0 THEN s.limit ELSE NoLimit,
                        IndexName |-> s.index, TableName |-> s.table],
             err |-> Nil]

\* Builder.ToScan
ToScan(s) ==
    IF s.err # Nil
       THEN [input |-> NoInput, err |-> s.err]
       ELSE [input |-> [FilterExpression |-> s.filterExpresion,
                        ExpressionAttributeNames |-> s.cols,
                        ExpressionAttributeValues |-> s.vals,
                        Limit |-> IF s.limit > 0 THEN s.limit ELSE NoLimit,
                        IndexName |-> s.index, TableName |-> s.table],
             err |-> Nil]

\* variant of the terminal operations' entry test that lets a recorded
\* error through
EntryErrNoRecorded(s) == IF s.client = NoClient THEN ErrClientNotSet ELSE Nil

\* the entry test of the terminal operations: the recorded error, else
\* ErrClientNotSet when no client is set, else nil
EntryErr(s) ==
    IF s.err # Nil THEN s.err
    ELSE IF s.client = NoClient THEN ErrClientNotSet
    ELSE Nil

\* no chaining call was made yet
NoCall == [n |-> 0, op |-> "none", query |-> << >>, vals |-> << >>, err |-> Nil]

\* no terminal call was made since the last chaining call
NoOut == [op |-> "none", err |-> Nil, called |-> FALSE]

\* a builder nobody has touched
BuilderIdle ==
    /\ builder = NewBuilder
    /\ bcall = NoCall
    /\ bout = NoOut

\* no BatchWriter call is active
BatchIdle ==
    /\ bwInput = << >>
    /\ stack = << >>
    /\ bwResult = << >>
    /\ calls = << >>
    /\ retries = 0
    /\ applied = << >>

\* the empty key map: no ExclusiveStartKey / no LastEvaluatedKey
NoKey == << >>

\* no page in hand
NoPage == [Items |-> << >>, LastEvaluatedKey |-> NoKey]

\* no iterator is running
IterIdle ==
    /\ itKind = "plain"
    /\ wantLimit = NoLimit
    /\ inLimit = NoLimit
    /\ hasLimit = FALSE
    /\ limit = 0
    /\ seen = 0
    /\ pageSize = 1
    /\ startKey = NoKey
    /\ token = NoKey
    /\ more = FALSE
    /\ ipc = "none"
    /\ cur = NoPage
    /\ pageError = Nil
    /\ itErr = Nil
    /\ itResult = Nil
    /\ delivered = << >>
    /\ fetched = 0
    /\ submitted = << >>
    /\ callNo = 1
    /\ firstRows = << >>

SeqIdle == BatchIdle /\ IterIdle /\ BuilderIdle

\* ParallelScanIterator called by the user, with either value of noLock
Init ==
    /\ StoreInit
    /\ SeqIdle
    /\ job = "scan"
    /\ noLock \in BOOLEAN
    /\ parentDone = FALSE
    /\ ScanInit
    /\ CopyIdle
    /\ onError = "nil"
    /\ tpc = [k \in Writers |-> "none"]
    /\ ppc = "none"
    /\ wg2 = 0
    /\ kpc = "none"

Next ==
    \/ PSI_Setup
    \/ PSI_Spawn
    \/ PSI_WaitCancel
    \/ PSI_SelectErr
    \/ PSI_SelectDone
    \/ ParentCancel
    \/ \E w \in Segs : PSW_AssignSegment(w)
    \/ \E w \in Segs : PSW_ScanPageCancelled(w)
    \/ \E w \in Segs : PSW_ScanPageError(w)
    \/ \E w \in Segs : PSW_ScanPage(w)
    \/ \E w \in Segs : PSW_Lock(w)
    \/ \E w \in Segs : PSW_FnReturn(w)
    \/ \E w \in Segs : PSW_CheckCtx(w)
    \/ \E w \in Segs : PSW_ReportCtxDone(w)
    \/ \E w \in Segs : PSW_ReportSend(w)
    \/ \E w \in Segs : PSW_ReportDefault(w)
    \/ \E w \in Segs : PSW_FinalReturn(w)
    \/ \E w \in Segs : PSW_FinalSend(w)

Spec == Init /\ [][Next]_vars

\* the steps of ParallelScanIterator's own goroutine
PSI_Step ==
    \/ PSI_Setup
    \/ PSI_Spawn
    \/ PSI_SelectErr
    \/ PSI_SelectDone

\* the steps of the goroutine of worker w, page source and callback included
PSW_Step(w) ==
    \/ PSW_AssignSegment(w)
    \/ PSW_ScanPageCancelled(w)
    \/ PSW_ScanPageError(w)
    \/ PSW_ScanPage(w)
    \/ PSW_Lock(w)
    \/ PSW_FnReturn(w)
    \/ PSW_CheckCtx(w)
    \/ PSW_ReportCtxDone(w)
    \/ PSW_ReportSend(w)
    \/ PSW_ReportDefault(w)
    \/ PSW_FinalReturn(w)
    \/ PSW_FinalSend(w)

\* the Go scheduler runs every goroutine that can take a step; the page
\* source answers and the callback returns; the caller need not cancel
ScanFairness ==
    /\ WF_vars(PSI_Step)
    /\ WF_vars(PSI_WaitCancel)
    /\ \A w \in Segs : WF_vars(PSW_Step(w))

SpecFair == Init /\ [][Next]_vars /\ ScanFairness

\* ------------------------------------------------------------- CopyTable
\* variant: the idle exit taken as soon as read-complete is signalled
IdleExitAlways(n, len) == TRUE

\* variant: the idle exit that does not look at the row channel
IdleExitNoLen(n, len) == n = 0

\* line 106: atomic.LoadInt64(working) == 0 && len(dataChan) == 0
IdleExit(n, len) == n = 0 /\ len = 0

\* variant: the abort path returns without waiting for the completion signal
AbortNoWait(c) == TRUE

\* line 179: <-complete proceeds once complete has been closed
AbortMayReturn(c) == c

\* lines 145-148: the copy callback sends the next row of its page into the
\* row channel; after the last row it returns nil (line 153)
PSW_CopySend(w) ==
    /\ job = "copy"
    /\ wpc[w] = "fn"
    /\ ~dataClosed
    /\ HasRoom(dataChan, DataChanCap)
    /\ dataChan' = Append(dataChan, RowId(w, page[w], fnIdx[w]))
    /\ IF fnIdx[w] = RowsPerPage
          THEN /\ e' = [e EXCEPT ![w] = Nil]
               /\ mu' = IF noLock THEN mu ELSE NoHolder
               /\ wpc' = [wpc EXCEPT ![w] = "check"]
               /\ fnIdx' = fnIdx
          ELSE /\ fnIdx' = [fnIdx EXCEPT ![w] = fnIdx[w] + 1]
               /\ UNCHANGED << e, mu, wpc >>
    /\ UNCHANGED << input, arg, page, last, werr, errChan, wg, waiter, cpc,
                    spawned, workerCancelled, scanCancels, result, requests,
                    produced >>
    /\ UNCHANGED << seqVars, storeVars, job, noLock, parentDone >>
    /\ UNCHANGED << onError, copyCancelled, copyCancels, policyCancelled,
                    copyErrChan, dataClosed, readComplete, working, tpc, trow,
                    terr, ppc, perr, wg2, complete, kpc, kerr, copyResult,
                    yielded, puts, attempts, putFailed, handled, panicked >>

\* line 147 after line 156: a send on the closed row channel panics; the
\* panic is not recovered, so the program and all its goroutines end
PSW_CopySendClosed(w) ==
    /\ job = "copy"
    /\ wpc[w] = "fn"
    /\ dataClosed
    /\ panicked' = TRUE
    /\ wpc' = [v \in Segs |-> "panic"]
    /\ tpc' = [k \in Writers |-> "panic"]
    /\ waiter' = "panic"
    /\ cpc' = "panic"
    /\ ppc' = "panic"
    /\ kpc' = "panic"
    /\ UNCHANGED << input, arg, page, last, e, werr, fnIdx, mu, errChan, wg,
                    spawned, workerCancelled, scanCancels, result, requests,
                    produced >>
    /\ UNCHANGED << seqVars, storeVars, job, noLock, parentDone >>
    /\ UNCHANGED << onError, copyCancelled, copyCancels, policyCancelled,
                    copyErrChan, dataChan, dataClosed, readComplete, working,
                    trow, terr, perr, wg2, complete, kerr, copyResult, yielded,
                    puts, attempts, putFailed, handled >>

\* lines 148-149: case <-ctx.Done(): return ctx.Err()  (ctx is CopyTable's)
PSW_CopyCtxDone(w) ==
    /\ job = "copy"
    /\ wpc[w] = "fn"
    /\ CtxDone
    /\ e' = [e EXCEPT ![w] = Canceled]
    /\ mu' = IF noLock THEN mu ELSE NoHolder
    /\ wpc' = [wpc EXCEPT ![w] = "check"]
    /\ UNCHANGED << input, arg, page, last, werr, fnIdx, errChan, wg, waiter,
                    cpc, spawned, workerCancelled, scanCancels, result,
                    requests, produced >>
    /\ UNCHANGED << seqVars, storeVars, job, noLock, parentDone, copyVars >>

\* lines 142-156: ParallelScanIterator has returned; close(dataChan)
Prod_CloseData ==
    /\ ppc = "scan"
    /\ cpc = "returned"
    /\ perr' = result
    /\ dataClosed' = TRUE
    /\ ppc' = "closed"
    /\ UNCHANGED << onError, copyCancelled, copyCancels, policyCancelled,
                    copyErrChan, dataChan, readComplete, working, tpc, trow,
                    terr, wg2, complete, kpc, kerr, copyResult, yielded, puts,
                    attempts, putFailed, handled, panicked >>
    /\ UNCHANGED << seqVars, storeVars, job, noLock, parentDone, scanVars >>

\* line 157: close(readComplete); with err == nil the producer ends
\* (deferred wg.Done())
Prod_CloseReadComplete ==
    /\ ppc = "closed"
    /\ readComplete' = TRUE
    /\ IF perr = Nil
          THEN ppc' = "done" /\ wg2' = wg2 - 1
          ELSE ppc' = "report" /\ wg2' = wg2
    /\ UNCHANGED << onError, copyCancelled, copyCancels, policyCancelled,
                    copyErrChan, dataChan, dataClosed, working, tpc, trow,
                    terr, perr, complete, kpc, kerr, copyResult, yielded, puts,
                    attempts, putFailed, handled, panicked >>
    /\ UNCHANGED << seqVars, storeVars, job, noLock, parentDone, scanVars >>

\* lines 158-160: err != nil, case <-ctx.Done(); deferred wg.Done()
Prod_ReportCtxDone ==
    /\ ppc = "report"
    /\ CtxDone
    /\ ppc' = "done"
    /\ wg2' = wg2 - 1
    /\ UNCHANGED << onError, copyCancelled, copyCancels, policyCancelled,
                    copyErrChan, dataChan, dataClosed, readComplete, working,
                    tpc, trow, terr, perr, complete, kpc, kerr, copyResult,
                    yielded, puts, attempts, putFailed, handled, panicked >>
    /\ UNCHANGED << seqVars, storeVars, job, noLock, parentDone, scanVars >>

\* line 161: case errChan <- err; deferred wg.Done()
Prod_ReportSend ==
    /\ ppc = "report"
    /\ HasRoom(copyErrChan, CopyErrChanCap)
    /\ copyErrChan' = Append(copyErrChan, perr)
    /\ ppc' = "done"
    /\ wg2' = wg2 - 1
    /\ UNCHANGED << onError, copyCancelled, copyCancels, policyCancelled,
                    dataChan, dataClosed, readComplete, working, tpc, trow,
                    terr, perr, complete, kpc, kerr, copyResult, yielded, puts,
                    attempts, putFailed, handled, panicked >>
    /\ UNCHANGED << seqVars, storeVars, job, noLock, parentDone, scanVars >>

\* ------------------------------------------------------- copyTableWorker
\* line 103: case <-time.After(10 * time.Second): the timer wins only when
\* neither other case became ready while the select waited
CTW_Timeout(k) ==
    /\ tpc[k] = "select"
    /\ ~CtxDone
    /\ dataChan = << >>
    /\ ~dataClosed
    /\ tpc' = [tpc EXCEPT ![k] = "idle"]
    /\ UNCHANGED << onError, copyCancelled, copyCancels, policyCancelled,
                    copyErrChan, dataChan, dataClosed, readComplete, working,
                    trow, terr, ppc, perr, wg2, complete, kpc, kerr,
                    copyResult, yielded, puts, attempts, putFailed, handled,
                    panicked >>
    /\ UNCHANGED << seqVars, storeVars, job, noLock, parentDone, scanVars >>

\* lines 104-111: the inner select on readComplete, and the idle exit
CTW_IdleCheck(k) ==
    /\ tpc[k] = "idle"
    /\ IF readComplete /\ IdleExit(working, Len(dataChan))
          THEN tpc' = [tpc EXCEPT ![k] = "done"] /\ wg2' = wg2 - 1
          ELSE tpc' = [tpc EXCEPT ![k] = "select"] /\ wg2' = wg2
    /\ UNCHANGED << onError, copyCancelled, copyCancels, policyCancelled,
                    copyErrChan, dataChan, dataClosed, readComplete, working,
                    trow, terr, ppc, perr, complete, kpc, kerr, copyResult,
                    yielded, puts, attempts, putFailed, handled, panicked >>
    /\ UNCHANGED << seqVars, storeVars, job, noLock, parentDone, scanVars >>

\* lines 112-113: case <-ctx.Done(): return; deferred wg.Done()
CTW_CtxDone(k) ==
    /\ tpc[k] = "select"
    /\ CtxDone
    /\ tpc' = [tpc EXCEPT ![k] = "done"]
    /\ wg2' = wg2 - 1
    /\ UNCHANGED << onError, copyCancelled, copyCancels, policyCancelled,
                    copyErrChan, dataChan, dataClosed, readComplete, working,
                    trow, terr, ppc, perr, complete, kpc, kerr, copyResult,
                    yielded, puts, attempts, putFailed, handled, panicked >>
    /\ UNCHANGED << seqVars, storeVars, job, noLock, parentDone, scanVars >>

\* lines 114-119: case data, open := <-dataChan with a row
CTW_Receive(k) ==
    /\ tpc[k] = "select"
    /\ dataChan # << >>
    /\ trow' = [trow EXCEPT ![k] = Head(dataChan)]
    /\ dataChan' = Tail(dataChan)
    /\ tpc' = [tpc EXCEPT ![k] = "got"]
    /\ UNCHANGED << onError, copyCancelled, copyCancels, policyCancelled,
                    copyErrChan, dataClosed, readComplete, working, terr, ppc,
                    perr, wg2, complete, kpc, kerr, copyResult, yielded, puts,
                    attempts, putFailed, handled, panicked >>
    /\ UNCHANGED << seqVars, storeVars, job, noLock, parentDone, scanVars >>

\* lines 114-117: the receive reports the channel closed and drained
CTW_Closed(k) ==
    /\ tpc[k] = "select"
    /\ dataChan = << >>
    /\ dataClosed
    /\ tpc' = [tpc EXCEPT ![k] = "done"]
    /\ wg2' = wg2 - 1
    /\ UNCHANGED << onError, copyCancelled, copyCancels, policyCancelled,
                    copyErrChan, dataChan, dataClosed, readComplete, working,
                    trow, terr, ppc, perr, complete, kpc, kerr, copyResult,
                    yielded, puts, attempts, putFailed, handled, panicked >>
    /\ UNCHANGED << seqVars, storeVars, job, noLock, parentDone, scanVars >>

\* the variant of AddInt64 that leaves the counter alone
AddInt64None(v, delta) == v

\* lines 81 and 83: atomic.AddInt64(working, delta), the new value
AddInt64(v, delta) == v + delta

\* line 81 (onCopyData): atomic.AddInt64(working, 1)
CTW_Begin(k) ==
    /\ tpc[k] = "got"
    /\ working' = AddInt64(working, 1)
    /\ tpc' = [tpc EXCEPT ![k] = "put"]
    /\ UNCHANGED << onError, copyCancelled, copyCancels, policyCancelled,
                    copyErrChan, dataChan, dataClosed, readComplete, trow,
                    terr, ppc, perr, wg2, complete, kpc, kerr, copyResult,
                    yielded, puts, attempts, putFailed, handled, panicked >>
    /\ UNCHANGED << seqVars, storeVars, job, noLock, parentDone, scanVars >>

\* lines 85-90 and 82-84: PutItemWithContext succeeds, err == nil, the
\* deferred decrement runs and the worker loops
CTW_PutOk(k) ==
    /\ tpc[k] = "put"
    /\ ~CtxDone
    /\ puts' = [puts EXCEPT ![trow[k]] = puts[trow[k]] + 1]
    /\ attempts' = [attempts EXCEPT ![trow[k]] = attempts[trow[k]] + 1]
    /\ LET in == PutItemInput(Item(trow[k]), DstTable)
       IN  tables' = [tables EXCEPT ![in.TableName] = PutItem(@, in.Item)]
    /\ working' = AddInt64(working, -1)
    /\ tpc' = [tpc EXCEPT ![k] = "select"]
    /\ UNCHANGED << onError, copyCancelled, copyCancels, policyCancelled,
                    copyErrChan, dataChan, dataClosed, readComplete, trow,
                    terr, ppc, perr, wg2, complete, kpc, kerr, copyResult,
                    yielded, putFailed, handled, panicked >>
    /\ UNCHANGED << seqVars, run, firstDst, job, noLock, parentDone, scanVars >>

\* lines 85-90: PutItemWithContext returns an error of the store
CTW_PutFail(k) ==
    /\ tpc[k] = "put"
    /\ ~CtxDone
    /\ attempts' = [attempts EXCEPT ![trow[k]] = attempts[trow[k]] + 1]
    /\ putFailed' = putFailed \cup { trow[k] }
    /\ terr' = [terr EXCEPT ![k] = PutErr(trow[k])]
    /\ tpc' = [tpc EXCEPT ![k] = "report"]
    /\ UNCHANGED << onError, copyCancelled, copyCancels, policyCancelled,
                    copyErrChan, dataChan, dataClosed, readComplete, working,
                    trow, ppc, perr, wg2, complete, kpc, kerr, copyResult,
                    yielded, puts, handled, panicked >>
    /\ UNCHANGED << seqVars, storeVars, job, noLock, parentDone, scanVars >>

\* lines 85-90: on a cancelled context the put fails before reaching the store
CTW_PutCancelled(k) ==
    /\ tpc[k] = "put"
    /\ CtxDone
    /\ terr' = [terr EXCEPT ![k] = Canceled]
    /\ tpc' = [tpc EXCEPT ![k] = "report"]
    /\ UNCHANGED << onError, copyCancelled, copyCancels, policyCancelled,
                    copyErrChan, dataChan, dataClosed, readComplete, working,
                    trow, ppc, perr, wg2, complete, kpc, kerr, copyResult,
                    yielded, puts, attempts, putFailed, handled, panicked >>
    /\ UNCHANGED << seqVars, storeVars, job, noLock, parentDone, scanVars >>

\* lines 91-93 and 82-84: case <-ctx.Done(): return; deferred decrement
CTW_ReportCtxDone(k) ==
    /\ tpc[k] = "report"
    /\ CtxDone
    /\ working' = AddInt64(working, -1)
    /\ tpc' = [tpc EXCEPT ![k] = "select"]
    /\ UNCHANGED << onError, copyCancelled, copyCancels, policyCancelled,
                    copyErrChan, dataChan, dataClosed, readComplete, trow,
                    terr, ppc, perr, wg2, complete, kpc, kerr, copyResult,
                    yielded, puts, attempts, putFailed, handled, panicked >>
    /\ UNCHANGED << seqVars, storeVars, job, noLock, parentDone, scanVars >>

\* lines 94 and 82-84: case errChan <- err (a blocking send: the select has
\* no default); deferred decrement
CTW_ReportSend(k) ==
    /\ tpc[k] = "report"
    /\ HasRoom(copyErrChan, CopyErrChanCap)
    /\ copyErrChan' = Append(copyErrChan, terr[k])
    /\ working' = AddInt64(working, -1)
    /\ tpc' = [tpc EXCEPT ![k] = "select"]
    /\ UNCHANGED << onError, copyCancelled, copyCancels, policyCancelled,
                    dataChan, dataClosed, readComplete, trow, terr, ppc, perr,
                    wg2, complete, kpc, kerr, copyResult, yielded, puts,
                    attempts, putFailed, handled, panicked >>
    /\ UNCHANGED << seqVars, storeVars, job, noLock, parentDone, scanVars >>

\* variant: a Wait that returns while one goroutine has not called Done yet
WaitReturnsEarly(n) == n <= 1

\* line 168: wg.Wait() returns once the counter of the WaitGroup is 0
WaitReturns(n) == n = 0

\* lines 166-170: wg.Wait(); close(complete)
Sup_Complete ==
    /\ job = "copy"
    /\ ~panicked
    /\ ~complete
    /\ WaitReturns(wg2)
    /\ complete' = TRUE
    /\ UNCHANGED << onError, copyCancelled, copyCancels, policyCancelled,
                    copyErrChan, dataChan, dataClosed, readComplete, working,
                    tpc, trow, terr, ppc, perr, wg2, kpc, kerr, copyResult,
                    yielded, puts, attempts, putFailed, handled, panicked >>
    /\ UNCHANGED << seqVars, storeVars, job, noLock, parentDone, scanVars >>

\* ------------------------------------------------ CopyTable control loop
\* lines 174-175 and 127: case <-ctx.Done(): return ctx.Err(); deferred cancel()
CT_CtxDone ==
    /\ kpc = "loop"
    /\ CtxDone
    /\ copyResult' = Canceled
    /\ kpc' = "returned"
    /\ copyCancelled' = cancel(copyCancelled)
    /\ copyCancels' = copyCancels + 1
    /\ UNCHANGED << onError, policyCancelled, copyErrChan, dataChan,
                    dataClosed, readComplete, working, tpc, trow, terr, ppc,
                    perr, wg2, complete, kerr, yielded, puts, attempts,
                    putFailed, handled, panicked >>
    /\ UNCHANGED << seqVars, storeVars, job, noLock, parentDone, scanVars >>

\* lines 176-178: case err := <-errChan with onError == nil: cancel()
CT_RecvErrAbort ==
    /\ kpc = "loop"
    /\ onError = "nil"
    /\ copyErrChan # << >>
    /\ kerr' = Head(copyErrChan)
    /\ copyErrChan' = Tail(copyErrChan)
    /\ copyCancelled' = cancel(copyCancelled)
    /\ copyCancels' = copyCancels + 1
    /\ kpc' = "drain"
    /\ UNCHANGED << onError, policyCancelled, dataChan, dataClosed,
                    readComplete, working, tpc, trow, terr, ppc, perr, wg2,
                    complete, copyResult, yielded, puts, attempts, putFailed,
                    handled, panicked >>
    /\ UNCHANGED << seqVars, storeVars, job, noLock, parentDone, scanVars >>

\* lines 179-180 and 127: <-complete; return err; deferred cancel()
CT_Drained ==
    /\ kpc = "drain"
    /\ AbortMayReturn(complete)
    /\ copyResult' = kerr
    /\ kpc' = "returned"
    /\ copyCancelled' = cancel(copyCancelled)
    /\ copyCancels' = copyCancels + 1
    /\ UNCHANGED << onError, policyCancelled, copyErrChan, dataChan,
                    dataClosed, readComplete, working, tpc, trow, terr, ppc,
                    perr, wg2, complete, kerr, yielded, puts, attempts,
                    putFailed, handled, panicked >>
    /\ UNCHANGED << seqVars, storeVars, job, noLock, parentDone, scanVars >>

\* lines 176 and 183: case err := <-errChan with a policy: onError(err, cancel)
CT_RecvErrPolicy ==
    /\ kpc = "loop"
    /\ onError = "set"
    /\ copyErrChan # << >>
    /\ kerr' = Head(copyErrChan)
    /\ copyErrChan' = Tail(copyErrChan)
    /\ handled' = handled \cup { Head(copyErrChan) }
    /\ kpc' = "onError"
    /\ UNCHANGED << onError, copyCancelled, copyCancels, policyCancelled,
                    dataChan, dataClosed, readComplete, working, tpc, trow,
                    terr, ppc, perr, wg2, complete, copyResult, yielded, puts,
                    attempts, putFailed, panicked >>
    /\ UNCHANGED << seqVars, storeVars, job, noLock, parentDone, scanVars >>

\* line 183: the caller's policy returns, having called its cancelFunc or not
CT_PolicyReturn ==
    /\ kpc = "onError"
    /\ \E c \in BOOLEAN :
          IF c THEN /\ copyCancelled' = cancel(copyCancelled)
                    /\ copyCancels' = copyCancels + 1
                    /\ policyCancelled' = TRUE
               ELSE UNCHANGED << copyCancelled, copyCancels, policyCancelled >>
    /\ kpc' = "loop"
    /\ UNCHANGED << onError, copyErrChan, dataChan, dataClosed, readComplete,
                    working, tpc, trow, terr, ppc, perr, wg2, complete, kerr,
                    copyResult, yielded, puts, attempts, putFailed, handled,
                    panicked >>
    /\ UNCHANGED << seqVars, storeVars, job, noLock, parentDone, scanVars >>

\* lines 184-185 and 127: case <-complete: return nil; deferred cancel()
CT_Complete ==
    /\ kpc = "loop"
    /\ complete
    /\ copyResult' = Nil
    /\ kpc' = "returned"
    /\ copyCancelled' = cancel(copyCancelled)
    /\ copyCancels' = copyCancels + 1
    /\ UNCHANGED << onError, policyCancelled, copyErrChan, dataChan,
                    dataClosed, readComplete, working, tpc, trow, terr, ppc,
                    perr, wg2, complete, kerr, yielded, puts, attempts,
                    putFailed, handled, panicked >>
    /\ UNCHANGED << seqVars, storeVars, job, noLock, parentDone, scanVars >>

\* CopyTable called by the user: lines 126-164 have started the writers and
\* the producer, whose scan runs with noLock = true (line 154)
CopyInit ==
    /\ StoreInit
    /\ SeqIdle
    /\ job = "copy"
    /\ noLock = TRUE
    /\ parentDone = FALSE
    /\ ScanInit
    /\ CopyIdle
    /\ onError \in { "nil", "set" }
    /\ tpc = [k \in Writers |-> "select"]
    /\ ppc = "scan"
    /\ wg2 = 1 + Workers
    /\ kpc = "loop"

\* the steps of a copy job that involve neither a failure of the store nor
\* the caller's context
CopyCore ==
    \/ PSI_Setup
    \/ PSI_Spawn
    \/ PSI_WaitCancel
    \/ PSI_SelectErr
    \/ PSI_SelectDone
    \/ \E w \in Segs : PSW_AssignSegment(w)
    \/ \E w \in Segs : PSW_ScanPageCancelled(w)
    \/ \E w \in Segs : PSW_ScanPage(w)
    \/ \E w \in Segs : PSW_CopySend(w)
    \/ \E w \in Segs : PSW_CopySendClosed(w)
    \/ \E w \in Segs : PSW_CopyCtxDone(w)
    \/ \E w \in Segs : PSW_CheckCtx(w)
    \/ \E w \in Segs : PSW_FinalReturn(w)
    \/ \E w \in Segs : PSW_FinalSend(w)
    \/ Prod_CloseData
    \/ Prod_CloseReadComplete
    \/ Prod_ReportCtxDone
    \/ Prod_ReportSend
    \/ \E k \in Writers : CTW_Timeout(k)
    \/ \E k \in Writers : CTW_IdleCheck(k)
    \/ \E k \in Writers : CTW_CtxDone(k)
    \/ \E k \in Writers : CTW_Receive(k)
    \/ \E k \in Writers : CTW_Closed(k)
    \/ \E k \in Writers : CTW_Begin(k)
    \/ \E k \in Writers : CTW_PutOk(k)
    \/ \E k \in Writers : CTW_PutCancelled(k)
    \/ \E k \in Writers : CTW_ReportCtxDone(k)
    \/ \E k \in Writers : CTW_ReportSend(k)
    \/ Sup_Complete
    \/ CT_CtxDone
    \/ CT_RecvErrAbort
    \/ CT_Drained
    \/ CT_RecvErrPolicy
    \/ CT_PolicyReturn
    \/ CT_Complete

\* the store fails: a page request of the source scan, or a put
CopyFault ==
    \/ \E w \in Segs : PSW_ScanPageError(w)
    \/ \E k \in Writers : CTW_PutFail(k)

\* a copy job whose caller never cancels its context; puts and page
\* requests may fail
NextCopy == CopyCore \/ CopyFault

SpecCopy == CopyInit /\ [][NextCopy]_vars

\* the steps of the goroutine of scan worker w in a copy job
CopyWorkerStep(w) ==
    \/ PSW_Step(w)
    \/ PSW_CopySend(w)
    \/ PSW_CopySendClosed(w)
    \/ PSW_CopyCtxDone(w)

\* the steps of the producer goroutine
ProducerStep ==
    \/ Prod_CloseData
    \/ Prod_CloseReadComplete
    \/ Prod_ReportCtxDone
    \/ Prod_ReportSend

\* the steps of the goroutine of writer k, its puts included
WriterStep(k) ==
    \/ CTW_Timeout(k)
    \/ CTW_IdleCheck(k)
    \/ CTW_CtxDone(k)
    \/ CTW_Receive(k)
    \/ CTW_Closed(k)
    \/ CTW_Begin(k)
    \/ CTW_PutOk(k)
    \/ CTW_PutFail(k)
    \/ CTW_PutCancelled(k)
    \/ CTW_ReportCtxDone(k)
    \/ CTW_ReportSend(k)

\* the steps of the control loop of CopyTable, the caller's policy included
ControlStep ==
    \/ CT_CtxDone
    \/ CT_RecvErrAbort
    \/ CT_Drained
    \/ CT_RecvErrPolicy
    \/ CT_PolicyReturn
    \/ CT_Complete

\* the Go scheduler runs every goroutine that can take a step; every store
\* call and the caller's policy return
CopyFairness ==
    /\ WF_vars(PSI_Step)
    /\ WF_vars(PSI_WaitCancel)
    /\ \A w \in Segs : WF_vars(CopyWorkerStep(w))
    /\ WF_vars(ProducerStep)
    /\ \A k \in Writers : WF_vars(WriterStep(k))
    /\ WF_vars(Sup_Complete)
    /\ WF_vars(ControlStep)

SpecCopyFair == CopyInit /\ [][NextCopy]_vars /\ CopyFairness

\* a copy job whose caller may cancel its context at any time, against a
\* store that never fails
NextCopyCancel == CopyCore \/ ParentCancel

SpecCopyCancel == CopyInit /\ [][NextCopyCancel]_vars

\* ------------------------------------- CopyTable over a deeper source table
\* CopyTable called with onError = nil on a source table that holds more
\* rows than the row channel and the error channel have room for
DeepInit ==
    /\ tables = [t \in { SrcTable, DstTable } |->
                    IF t = SrcTable THEN DeepItems ELSE DstBefore]
    /\ run = 1
    /\ firstDst = {}
    /\ SeqIdle
    /\ job = "copy"
    /\ noLock = TRUE
    /\ parentDone = FALSE
    /\ ScanInit
    /\ CopyIdle
    /\ onError = "nil"
    /\ tpc = [k \in Writers |-> "select"]
    /\ ppc = "scan"
    /\ wg2 = 1 + Workers
    /\ kpc = "loop"

\* the steps of that job: puts may fail, page requests do not, and the
\* caller never cancels its context, so the context is cancelled only by the
\* control loop, which has then left its select (CT_CtxDone cannot occur)
NextDeep ==
    \/ PSI_Setup
    \/ PSI_Spawn
    \/ PSI_WaitCancel
    \/ PSI_SelectErr
    \/ PSI_SelectDone
    \/ \E w \in Segs : PSW_AssignSegment(w)
    \/ \E w \in Segs : PSW_ScanPageCancelled(w)
    \/ \E w \in Segs : PSW_ScanPage(w)
    \/ \E w \in Segs : PSW_CopySend(w)
    \/ \E w \in Segs : PSW_CopySendClosed(w)
    \/ \E w \in Segs : PSW_CopyCtxDone(w)
    \/ \E w \in Segs : PSW_CheckCtx(w)
    \/ \E w \in Segs : PSW_FinalReturn(w)
    \/ \E w \in Segs : PSW_FinalSend(w)
    \/ Prod_CloseData
    \/ Prod_CloseReadComplete
    \/ Prod_ReportCtxDone
    \/ Prod_ReportSend
    \/ \E k \in Writers : CTW_Timeout(k)
    \/ \E k \in Writers : CTW_IdleCheck(k)
    \/ \E k \in Writers : CTW_CtxDone(k)
    \/ \E k \in Writers : CTW_Receive(k)
    \/ \E k \in Writers : CTW_Closed(k)
    \/ \E k \in Writers : CTW_Begin(k)
    \/ \E k \in Writers : CTW_PutOk(k)
    \/ \E k \in Writers : CTW_PutFail(k)
    \/ \E k \in Writers : CTW_PutCancelled(k)
    \/ \E k \in Writers : CTW_ReportCtxDone(k)
    \/ \E k \in Writers : CTW_ReportSend(k)
    \/ Sup_Complete
    \/ CT_RecvErrAbort
    \/ CT_Drained
    \/ CT_Complete

SpecDeep == DeepInit /\ [][NextDeep]_vars

\* the steps of that job when the caller may cancel its context at any time,
\* against a store that never fails
NextDeepCancel ==
    \/ PSI_Setup
    \/ PSI_Spawn
    \/ PSI_WaitCancel
    \/ PSI_SelectErr
    \/ PSI_SelectDone
    \/ \E w \in Segs : PSW_AssignSegment(w)
    \/ \E w \in Segs : PSW_ScanPageCancelled(w)
    \/ \E w \in Segs : PSW_ScanPage(w)
    \/ \E w \in Segs : PSW_CopySend(w)
    \/ \E w \in Segs : PSW_CopySendClosed(w)
    \/ \E w \in Segs : PSW_CopyCtxDone(w)
    \/ \E w \in Segs : PSW_CheckCtx(w)
    \/ \E w \in Segs : PSW_FinalReturn(w)
    \/ \E w \in Segs : PSW_FinalSend(w)
    \/ Prod_CloseData
    \/ Prod_CloseReadComplete
    \/ Prod_ReportCtxDone
    \/ Prod_ReportSend
    \/ \E k \in Writers : CTW_Timeout(k)
    \/ \E k \in Writers : CTW_IdleCheck(k)
    \/ \E k \in Writers : CTW_CtxDone(k)
    \/ \E k \in Writers : CTW_Receive(k)
    \/ \E k \in Writers : CTW_Closed(k)
    \/ \E k \in Writers : CTW_Begin(k)
    \/ \E k \in Writers : CTW_PutOk(k)
    \/ \E k \in Writers : CTW_PutCancelled(k)
    \/ \E k \in Writers : CTW_ReportCtxDone(k)
    \/ \E k \in Writers : CTW_ReportSend(k)
    \/ Sup_Complete
    \/ CT_CtxDone
    \/ CT_RecvErrAbort
    \/ CT_Drained
    \/ CT_Complete
    \/ ParentCancel

SpecDeepCancel == DeepInit /\ [][NextDeepCancel]_vars

\* ------------------------------------------------- CopyTable, called twice
\* The caller, having got nil from CopyTable(ctx, "B", "A", workers, onError),
\* calls it again with the same arguments: the second call starts as the
\* first did (lines 126-164), on the tables as the first call left them.
CT_RunAgain ==
    /\ job = "copy"
    /\ run = 1
    /\ kpc = "returned"
    /\ copyResult = Nil
    /\ run' = 2
    /\ firstDst' = tables[DstTable]
    /\ input' = [TotalSegments |-> 0]
    /\ arg' = [w \in Segs |-> [TotalSegments |-> 0, Segment |-> NoSegment]]
    /\ wpc' = [w \in Segs |-> "idle"]
    /\ page' = [w \in Segs |-> 0]
    /\ last' = [w \in Segs |-> FALSE]
    /\ e' = [w \in Segs |-> Nil]
    /\ werr' = [w \in Segs |-> Nil]
    /\ fnIdx' = [w \in Segs |-> 1]
    /\ mu' = NoHolder
    /\ errChan' = << >>
    /\ wg' = 0
    /\ waiter' = "idle"
    /\ cpc' = "setup"
    /\ spawned' = 0
    /\ workerCancelled' = FALSE
    /\ scanCancels' = 0
    /\ result' = Nil
    /\ requests' = {}
    /\ produced' = {}
    /\ copyCancelled' = FALSE
    /\ copyCancels' = 0
    /\ policyCancelled' = FALSE
    /\ copyErrChan' = << >>
    /\ dataChan' = << >>
    /\ dataClosed' = FALSE
    /\ readComplete' = FALSE
    /\ working' = 0
    /\ trow' = [k \in Writers |-> NoRow]
    /\ terr' = [k \in Writers |-> Nil]
    /\ perr' = Nil
    /\ complete' = FALSE
    /\ kerr' = Nil
    /\ copyResult' = Nil
    /\ yielded' = {}
    /\ puts' = [r \in DeepRows |-> 0]
    /\ attempts' = [r \in DeepRows |-> 0]
    /\ putFailed' = {}
    /\ handled' = {}
    /\ panicked' = FALSE
    /\ tpc' = [k \in Writers |-> "select"]
    /\ ppc' = "scan"
    /\ wg2' = 1 + Workers
    /\ kpc' = "loop"
    /\ UNCHANGED << seqVars, tables, job, noLock, parentDone, onError >>

\* two successive copies against a store that never fails, the caller's
\* context never cancelled
CopyClean ==
    \/ PSI_Setup
    \/ PSI_Spawn
    \/ PSI_WaitCancel
    \/ PSI_SelectDone
    \/ \E w \in Segs : PSW_AssignSegment(w)
    \/ \E w \in Segs : PSW_ScanPage(w)
    \/ \E w \in Segs : PSW_CopySend(w)
    \/ \E w \in Segs : PSW_CheckCtx(w)
    \/ Prod_CloseData
    \/ Prod_CloseReadComplete
    \/ \E k \in Writers : CTW_Timeout(k)
    \/ \E k \in Writers : CTW_IdleCheck(k)
    \/ \E k \in Writers : CTW_Receive(k)
    \/ \E k \in Writers : CTW_Closed(k)
    \/ \E k \in Writers : CTW_Begin(k)
    \/ \E k \in Writers : CTW_PutOk(k)
    \/ Sup_Complete
    \/ CT_Complete

NextCopyTwice == CopyClean \/ CT_RunAgain

SpecCopyTwice == CopyInit /\ [][NextCopyTwice]_vars

\* ------------------------------------------------------------ BatchWriter
\* an error returned by the n-th batch-write call
BatchErr(n) == <<"batch", n>>

\* a WriteRequest carrying a PutRequest / a DeleteRequest
PutRequest(item) == [PutRequest |-> [Item |-> item]]

DeleteRequest(key) == [DeleteRequest |-> [Key |-> key]]

\* the chunking that forgets the last, partial group
RECURSIVE ChunkFull(_, _)
ChunkFull(reqs, i) ==
    IF i + ChunkSize > Len(reqs)
    THEN << >>
    ELSE << SubSeq(reqs, i + 1, i + ChunkSize) >>
            \o ChunkFull(reqs, i + ChunkSize)

ChunkWriteRequestsFullOnly(reqs) == ChunkFull(reqs, 0)

\* lines 394-401: the loop of ChunkWriteRequests from index i on
RECURSIVE ChunkFrom(_, _)
ChunkFrom(reqs, i) ==
    LET total == Len(reqs)
        end   == IF i + ChunkSize > total THEN total ELSE i + ChunkSize
    IN  IF i < total
        THEN << SubSeq(reqs, i + 1, end) >> \o ChunkFrom(reqs, i + ChunkSize)
        ELSE << >>

\* ChunkWriteRequests
ChunkWriteRequests(reqs) == ChunkFrom(reqs, 0)

\* the store applies one write request to a table
ApplyRequest(tbl, req) ==
    IF "PutRequest" \in DOMAIN req
    THEN PutItem(tbl, req.PutRequest.Item)
    ELSE DeleteItem(tbl, req.DeleteRequest.Key)

RECURSIVE ApplyAll(_, _)
ApplyAll(tbl, reqs) ==
    IF reqs = << >> THEN tbl
    ELSE ApplyAll(ApplyRequest(tbl, Head(reqs)), Tail(reqs))

\* what a batch-write response may report as unprocessed for a chunk: its
\* last k requests, k from 0 to MaxUnprocessed; a response reports
\* unprocessed items at most MaxRetries times in a run
UnprocessedChoices(chunk) ==
    { SubSeq(chunk, Len(chunk) - k + 1, Len(chunk)) :
        k \in 0 .. (IF retries < MaxRetries
                    THEN (IF Len(chunk) < MaxUnprocessed
                          THEN Len(chunk) ELSE MaxUnprocessed)
                    ELSE 0) }

\* out.UnprocessedItems: a map from table name to the requests left over
UnprocessedItems(table, left) ==
    IF left = << >> THEN << >> ELSE [t \in { table } |-> left]

\* the table names a response may use
TableNames == { SrcTable, DstTable }

\* the variant of Rest that leaves nothing: the loop over the groups of a
\* response would stop after the first group
RestNone(m, t) == << >>

\* a map without the entry of table t
Rest(m, t) == [x \in (DOMAIN m) \ { t } |-> m[x]]

\* what a batch-write response may report as unprocessed under names other
\* than the requested table alone: the requests left over, all under the
\* other table, or cut in two groups, one under each table
Regrouped(table, left) ==
    { [t \in { other } |-> left] : other \in TableNames \ { table } }
      \cup
    { [t \in { one, other } |->
          IF t = one THEN SubSeq(left, 1, cut)
                     ELSE SubSeq(left, cut + 1, Len(left))] :
        << one, other, cut >> \in
            { x \in TableNames \X TableNames \X (1 .. Len(left) - 1) :
                x[1] # x[2] } }

\* lines 27-28: the activation record of BatchWriter(ctx, table, requests...);
\* pending holds the groups of out.UnprocessedItems that the loop of line 43
\* has not reached yet
Frame(table, reqs) ==
    [table |-> table, chunks |-> ChunkWriteRequests(reqs), i |-> 1,
     totalWritten |-> 0, err |-> Nil, pending |-> << >>]

\* the variant of HasUnprocessed that never sees a group: BatchWriter would
\* not call itself for the requests left over
HasUnprocessedNever(out) == FALSE

\* line 42: if len(out.UnprocessedItems) > 0
HasUnprocessed(out) == Cardinality(DOMAIN out) > 0

\* the record is at a return statement: line 37 or 47 (err), or line 53
Returning(f) == f.err # Nil \/ f.i > Len(f.chunks)

\* line 40: totalWritten += len(chunk) - len(out.UnprocessedItems)
Written(chunk, out) == Len(chunk) - Cardinality(DOMAIN out)

\* BatchWriter(ctx, "B", requests...) is called by the user
BW_Enter ==
    /\ job = "batch"
    /\ stack = << >>
    /\ bwResult = << >>
    /\ calls = << >>
    /\ stack' = << Frame(DstTable, bwInput) >>
    /\ UNCHANGED << bwInput, bwResult, calls, retries, applied >>
    /\ UNCHANGED << job, tables, engineVars, iterVars >>

\* lines 30-50: the batch-write call for the chunk in hand succeeds; the
\* store has applied all of it but the requests it reports as unprocessed,
\* for which BatchWriter calls itself (lines 43-44)
BW_CallOk ==
    /\ stack # << >>
    /\ ~Returning(stack[Len(stack)])
    /\ LET d     == Len(stack)
           f     == stack[d]
           chunk == f.chunks[f.i]
       IN  \E left \in UnprocessedChoices(chunk) :
             LET out  == UnprocessedItems(f.table, left)
                 done == SubSeq(chunk, 1, Len(chunk) - Len(left))
                 g    == [f EXCEPT !.totalWritten = @ + Written(chunk, out)]
             IN  /\ calls' = Append(calls, [table |-> f.table, requests |-> chunk,
                                           depth |-> d, unprocessed |-> out])
                 /\ tables' = [tables EXCEPT ![f.table] = ApplyAll(@, done)]
                 /\ applied' = applied \o done
                 /\ IF HasUnprocessed(out)
                    THEN /\ stack' = Append([stack EXCEPT ![d] = g],
                                            Frame(f.table, out[f.table]))
                         /\ retries' = retries + 1
                    ELSE /\ stack' = [stack EXCEPT ![d] = [g EXCEPT !.i = @ + 1]]
                         /\ retries' = retries
    /\ UNCHANGED << bwInput, bwResult >>
    /\ UNCHANGED << job, engineVars, iterVars >>

\* lines 30-38: the batch-write call for the chunk in hand returns an error
BW_CallErr ==
    /\ stack # << >>
    /\ ~Returning(stack[Len(stack)])
    /\ LET d == Len(stack)
           f == stack[d]
       IN  /\ calls' = Append(calls, [table |-> f.table, requests |-> f.chunks[f.i],
                                     depth |-> d, unprocessed |-> << >>])
           /\ stack' = [stack EXCEPT ![d].err = BatchErr(Len(calls) + 1)]
    /\ UNCHANGED << bwInput, bwResult, retries, applied >>
    /\ UNCHANGED << job, tables, engineVars, iterVars >>

\* lines 30-50: the batch-write call for the chunk in hand succeeds and the
\* response reports the requests left over under other table names; the
\* loop of line 43 takes the groups in the order of Go's map iteration, which
\* is any order
BW_CallRegrouped ==
    /\ stack # << >>
    /\ ~Returning(stack[Len(stack)])
    /\ LET d     == Len(stack)
           f     == stack[d]
           chunk == f.chunks[f.i]
       IN  \E left \in UnprocessedChoices(chunk) \ { << >> } :
           \E out \in Regrouped(f.table, left) :
           \E t \in DOMAIN out :
             LET done == SubSeq(chunk, 1, Len(chunk) - Len(left))
                 g    == [f EXCEPT !.totalWritten = @ + Written(chunk, out),
                                   !.pending = Rest(out, t)]
             IN  /\ calls' = Append(calls, [table |-> f.table, requests |-> chunk,
                                           depth |-> d, unprocessed |-> out])
                 /\ tables' = [tables EXCEPT ![f.table] = ApplyAll(@, done)]
                 /\ applied' = applied \o done
                 /\ stack' = Append([stack EXCEPT ![d] = g], Frame(t, out[t]))
                 /\ retries' = retries + 1
    /\ UNCHANGED << bwInput, bwResult >>
    /\ UNCHANGED << job, engineVars, iterVars >>

\* lines 37, 47, 53 and 43-48: the innermost call returns (total, err); its
\* caller adds total to its own count, returns too when err is not nil, and
\* otherwise calls itself for the next group of the response, if one is left
BW_Return ==
    /\ stack # << >>
    /\ Returning(stack[Len(stack)])
    /\ LET d == Len(stack)
           f == stack[d]
       IN  IF d = 1
           THEN /\ bwResult' = << f.totalWritten, f.err >>
                /\ stack' = << >>
           ELSE LET p == [stack[d - 1] EXCEPT
                            !.totalWritten = @ + f.totalWritten,
                            !.err = f.err]
                IN  /\ bwResult' = bwResult
                    /\ IF f.err = Nil /\ DOMAIN p.pending # {}
                       THEN \E t \in DOMAIN p.pending :
                              stack' = SubSeq(stack, 1, d - 2)
                                         \o << [p EXCEPT !.pending = Rest(@, t)],
                                               Frame(t, p.pending[t]) >>
                       ELSE stack' = SubSeq(stack, 1, d - 2)
                                       \o << [p EXCEPT !.i = IF f.err = Nil
                                                             THEN @ + 1 ELSE @] >>
    /\ UNCHANGED << bwInput, calls, retries, applied >>
    /\ UNCHANGED << job, tables, engineVars, iterVars >>

\* the scan and copy engines are not running
EngineIdle ==
    /\ noLock = FALSE
    /\ parentDone = FALSE
    /\ ScanInit
    /\ CopyIdle
    /\ onError = "nil"
    /\ tpc = [k \in Writers |-> "none"]
    /\ ppc = "none"
    /\ wg2 = 0
    /\ kpc = "none"
    /\ BuilderIdle

\* the put requests for rows 1 .. n
PutRequests(n) == [i \in 1 .. n |-> PutRequest(Item(i))]

\* BatchWriter is about to be called with 0 .. MaxRequests put requests
BatchInit ==
    /\ job = "batch"
    /\ EngineIdle
    /\ StoreInit
    /\ IterIdle
    /\ bwInput \in { PutRequests(n) : n \in 0 .. MaxRequests }
    /\ stack = << >>
    /\ bwResult = << >>
    /\ calls = << >>
    /\ retries = 0
    /\ applied = << >>

NextBatch ==
    \/ BW_Enter
    \/ BW_CallOk
    \/ BW_CallErr
    \/ BW_Return

SpecBatch == BatchInit /\ [][NextBatch]_vars

\* BatchWriter against a store that returns no error and may report the
\* unprocessed requests under any table names
NextRetry ==
    \/ BW_Enter
    \/ BW_CallOk
    \/ BW_CallRegrouped
    \/ BW_Return

SpecRetry == BatchInit /\ [][NextRetry]_vars

\* BatchWriter against a store that may return an error and may report the
\* unprocessed requests under any table names
NextBatchAll ==
    \/ BW_Enter
    \/ BW_CallOk
    \/ BW_CallErr
    \/ BW_CallRegrouped
    \/ BW_Return

\* BatchWriter is one goroutine that runs without waiting: the call is made,
\* the store answers, and the loops of lines 29 and 43 go on
BatchFairness == WF_vars(NextBatchAll)

SpecBatchFair == BatchInit /\ [][NextBatchAll]_vars /\ BatchFairness

\* ------------------------------------------------------ the page source
\* The store behind QueryPagesWithContext / ScanPagesWithContext.  A request
\* evaluates the next pageSize items after the start key in key order,
\* returns those the filter accepts, and names the last evaluated item's key
\* as LastEvaluatedKey when items remain after it.
ItemsOf(n, staleOnes) ==
    { IF k \in staleOnes THEN Stale(k) ELSE Item(k) : k \in 1 .. n }

\* the filter of the request: the rows the caller is after
Matches(x) == x.data = "fresh"

\* the sort key a request starts after
StartAfter(key) == IF key = NoKey THEN 0 ELSE key.SK

RECURSIVE Evaluated(_, _, _)
Evaluated(tbl, after, size) ==
    LET cand == { x \in tbl : x.SK > after }
    IN  IF size = 0 \/ cand = {}
        THEN << >>
        ELSE LET m == CHOOSE x \in cand : \A y \in cand : x.SK <= y.SK
             IN  << m >> \o Evaluated(tbl, m.SK, size - 1)

PageAfter(tbl, key, size) ==
    LET ev == Evaluated(tbl, StartAfter(key), size)
    IN  [Items |-> SelectSeq(ev, Matches),
         LastEvaluatedKey |->
            IF ev # << >> /\ \E x \in tbl : x.SK > ev[Len(ev)].SK
            THEN extractFields(ev[Len(ev)], KeyFields)
            ELSE NoKey]

\* the rows the filter accepts after a key, in key order
RowsAfter(tbl, key) ==
    SelectSeq(Evaluated(tbl, StartAfter(key), Cardinality(tbl)), Matches)

\* an error returned by the n-th page request
PageErr(n) == <<"page", n>>

\* an error returned by the callback for the n-th output it is handed
FnErr(n) == <<"fn", n>>

\* --------------------------------------------------- the page iterators
\* the loop that admits rows one too many
RECURSIVE TrimFromLate(_, _, _, _)
TrimFromLate(rest, sn, lim, acc) ==
    IF rest = << >>
    THEN [items |-> acc, seen |-> sn, added |-> acc # << >>, broke |-> FALSE]
    ELSE IF sn + 1 > lim + 1
         THEN [items |-> acc, seen |-> sn + 1, added |-> acc # << >>, broke |-> TRUE]
         ELSE TrimFromLate(Tail(rest), sn + 1, lim, Append(acc, Head(rest)))

\* part_000 lines 105-113 and 581-590: the loop over the page's items;
\* seen counts every item looked at, the one that crosses the limit included
RECURSIVE TrimFrom(_, _, _, _)
TrimFrom(rest, sn, lim, acc) ==
    IF rest = << >>
    THEN [items |-> acc, seen |-> sn, added |-> acc # << >>, broke |-> FALSE]
    ELSE IF sn + 1 > lim
         THEN [items |-> acc, seen |-> sn + 1, added |-> acc # << >>, broke |-> TRUE]
         ELSE TrimFrom(Tail(rest), sn + 1, lim, Append(acc, Head(rest)))

\* a stop test that never stops
NeverEmptied(sn, added, broke) == FALSE

\* part_000 lines 114 and 591: the page has been emptied by the limit
Emptied(sn, added, broke) == sn > 0 /\ ~added /\ broke

\* the token taken from the first row of the page
FirstRowKey(items, keys) == extractFields(items[1], keys)

\* part_000 lines 146-149 and 406-409: the token of a trimmed page
LastRowKey(items, keys) == extractFields(items[Len(items)], keys)

\* paging that goes on whatever the callback returned
ContinueAlways(err) == TRUE

\* lines 66 and 268: return pageError == nil
Continue(err) == err = Nil

\* a result that forgets the callback's error
IterResultErrOnly(err, pgErr) == err

\* lines 69-77 and 271-279: the value the iterator returns
IterResult(err, pgErr) ==
    IF err # Nil THEN err ELSE IF pgErr # Nil THEN pgErr ELSE Nil

\* part_000 lines 92-99, 352-359 (the iterator copies the input and clears
\* the copy's Limit) and 136, 396, 568-575 (limitModifier clears the Limit of
\* the caller's input)
IT_Start ==
    /\ ipc = "start"
    /\ hasLimit' = (inLimit # NoLimit)
    /\ limit' = IF inLimit # NoLimit THEN inLimit ELSE 0
    /\ inLimit' = IF itKind = "v2" THEN NoLimit ELSE inLimit
    /\ seen' = 0
    /\ pageError' = Nil
    /\ token' = startKey
    /\ more' = TRUE
    /\ ipc' = "next"
    /\ UNCHANGED << itKind, wantLimit, pageSize, startKey, cur, itErr, itResult,
                    delivered, fetched, submitted, callNo, firstRows >>
    /\ UNCHANGED << job, tables, engineVars, batchVars >>

\* the pager's request fails: the loop ends and the pager returns the error
IT_FetchErr ==
    /\ ipc = "next"
    /\ more
    /\ fetched' = fetched + 1
    /\ itErr' = PageErr(fetched + 1)
    /\ ipc' = "finish"
    /\ UNCHANGED << itKind, wantLimit, inLimit, hasLimit, limit, seen, pageSize,
                    startKey, token, more, cur, pageError, itResult, delivered,
                    submitted, callNo, firstRows >>
    /\ UNCHANGED << job, tables, engineVars, batchVars >>

\* the pager has no next page: the loop ends
IT_NoMore ==
    /\ ipc = "next"
    /\ ~more
    /\ ipc' = "finish"
    /\ UNCHANGED << itKind, wantLimit, inLimit, hasLimit, limit, seen, pageSize,
                    startKey, token, more, cur, pageError, itErr, itResult,
                    delivered, fetched, submitted, callNo, firstRows >>
    /\ UNCHANGED << job, tables, engineVars, batchVars >>

\* the pager receives a page and runs the iterator's page function up to
\* its call of fn: part_000 lines 101-119 / 361-379 (plain) and 138-151 /
\* 398-411 (V2)
IT_Page ==
    /\ ipc = "next"
    /\ more
    /\ LET out == PageAfter(tables[DstTable], token, pageSize)
           t   == IF hasLimit
                  THEN TrimFrom(out.Items, seen, limit, << >>)
                  ELSE [items |-> out.Items, seen |-> seen, added |-> FALSE,
                        broke |-> FALSE]
           stop == hasLimit /\ Emptied(t.seen, t.added, t.broke)
       IN  /\ fetched' = fetched + 1
           /\ token' = out.LastEvaluatedKey
           /\ more' = (out.LastEvaluatedKey # NoKey)
           /\ IF itKind = "v2" /\ Len(out.Items) = 0
              THEN /\ ipc' = "next"
                   /\ UNCHANGED << seen, cur >>
              ELSE /\ seen' = t.seen
                   /\ IF stop
                      THEN /\ ipc' = "finish"
                           /\ cur' = cur
                      ELSE /\ ipc' = "callback"
                           /\ cur' = [Items |-> t.items,
                                      LastEvaluatedKey |->
                                        IF itKind = "v2" /\ Len(t.items) > 0 /\ t.broke
                                        THEN LastRowKey(t.items, KeyFields)
                                        ELSE out.LastEvaluatedKey]
    /\ UNCHANGED << itKind, wantLimit, inLimit, hasLimit, limit, pageSize,
                    startKey, pageError, itErr, itResult, delivered, submitted,
                    callNo, firstRows >>
    /\ UNCHANGED << job, tables, engineVars, batchVars >>

\* history entry: the output handed to fn, with the number of its page
Handed(out, n) ==
    [Items |-> out.Items, LastEvaluatedKey |-> out.LastEvaluatedKey, n |-> n]

\* lines 65-66 / 267-268: the caller's fn returns nil for the output
IT_CallbackNil ==
    /\ job = "iterate"
    /\ ipc = "callback"
    /\ delivered' = Append(delivered, Handed(cur, fetched))
    /\ pageError' = Nil
    /\ ipc' = IF Continue(Nil) THEN "next" ELSE "finish"
    /\ UNCHANGED << itKind, wantLimit, inLimit, hasLimit, limit, seen, pageSize,
                    startKey, token, more, cur, itErr, itResult, fetched,
                    submitted, callNo, firstRows >>
    /\ UNCHANGED << job, tables, engineVars, batchVars >>

\* lines 65-66 / 267-268: the caller's fn returns an error for the output
IT_CallbackErr ==
    /\ job = "iterate"
    /\ ipc = "callback"
    /\ delivered' = Append(delivered, Handed(cur, fetched))
    /\ pageError' = FnErr(Len(delivered) + 1)
    /\ ipc' = IF Continue(FnErr(Len(delivered) + 1)) THEN "next" ELSE "finish"
    /\ UNCHANGED << itKind, wantLimit, inLimit, hasLimit, limit, seen, pageSize,
                    startKey, token, more, cur, itErr, itResult, fetched,
                    submitted, callNo, firstRows >>
    /\ UNCHANGED << job, tables, engineVars, batchVars >>

\* lines 69-77 / 271-279: the iterator returns
IT_Return ==
    /\ ipc = "finish"
    /\ itResult' = IterResult(itErr, pageError)
    /\ ipc' = "done"
    /\ UNCHANGED << itKind, wantLimit, inLimit, hasLimit, limit, seen, pageSize,
                    startKey, token, more, cur, pageError, itErr, delivered,
                    fetched, submitted, callNo, firstRows >>
    /\ UNCHANGED << job, tables, engineVars, batchVars >>

\* the rows of a sequence of outputs, in order
RECURSIVE RowsOf(_)
RowsOf(outs) ==
    IF outs = << >> THEN << >> ELSE Head(outs).Items \o RowsOf(Tail(outs))

\* The caller of a V2 iterator that returned nil takes the token of the last
\* output it was handed and calls the iterator again with that token as
\* ExclusiveStartKey and the same limit.
IT_Resume ==
    /\ job = "iterate"
    /\ itKind = "v2"
    /\ ipc = "done"
    /\ callNo = 1
    /\ itResult = Nil
    /\ delivered # << >>
    /\ delivered[Len(delivered)].LastEvaluatedKey # NoKey
    /\ callNo' = 2
    /\ firstRows' = RowsOf(delivered)
    /\ startKey' = delivered[Len(delivered)].LastEvaluatedKey
    /\ inLimit' = wantLimit
    /\ delivered' = << >>
    /\ fetched' = 0
    /\ cur' = NoPage
    /\ ipc' = "start"
    /\ UNCHANGED << itKind, wantLimit, hasLimit, limit, seen, pageSize, token,
                    more, pageError, itErr, itResult, submitted >>
    /\ UNCHANGED << job, tables, engineVars, batchVars >>

\* the tables a query or scan may meet: 0 .. MaxItems items, any of them
\* rejected by the filter
ScannedTables ==
    { [t \in { SrcTable, DstTable } |->
            IF t = SrcTable THEN SourceItems ELSE ItemsOf(n, st)] :
        n \in 0 .. MaxItems, st \in SUBSET (1 .. MaxItems) }

\* an iterator is about to be called on table "B", from its first item
IterStart ==
    /\ EngineIdle
    /\ run = 1
    /\ firstDst = {}
    /\ BatchIdle
    /\ tables \in ScannedTables
    /\ pageSize \in 1 .. MaxPageSize
    /\ inLimit = wantLimit
    /\ hasLimit = FALSE
    /\ limit = 0
    /\ seen = 0
    /\ startKey = NoKey
    /\ token = NoKey
    /\ more = FALSE
    /\ ipc = "start"
    /\ cur = NoPage
    /\ pageError = Nil
    /\ itErr = Nil
    /\ itResult = Nil
    /\ delivered = << >>
    /\ fetched = 0
    /\ submitted = << >>
    /\ callNo = 1
    /\ firstRows = << >>

\* QueryIterator / ScanIterator or their V2 forms, with or without a limit,
\* and a callback that may fail
IterInit ==
    /\ job = "iterate"
    /\ itKind \in { "plain", "v2" }
    /\ wantLimit \in { NoLimit } \cup (0 .. MaxLimit)
    /\ IterStart

NextIter ==
    \/ IT_Start
    \/ IT_FetchErr
    \/ IT_NoMore
    \/ IT_Page
    \/ IT_CallbackNil
    \/ IT_CallbackErr
    \/ IT_Return
    \/ IT_Resume

SpecIter == IterInit /\ [][NextIter]_vars

\* ------------------------------------------- ScanDeleter / QueryDeleter
\* the request list that leaves out the last row
DeleteRequestsButLast(items) ==
    [i \in 1 .. (Len(items) - 1) |-> DeleteRequest(PKSKExtractor(items[i]))]

\* lines 285-292 / 311-318: one delete request per row of the page, its key
\* taken by keyFn, here PKSKExtractor
DeleteRequests(items) ==
    [i \in 1 .. Len(items) |-> DeleteRequest(PKSKExtractor(items[i]))]

\* lines 284-294 / 310-320: the deleter's callback builds the requests of
\* the page and calls BatchWriter(ctx, table, requests...)
SW_Callback ==
    /\ job = "sweep"
    /\ ipc = "callback"
    /\ LET reqs == DeleteRequests(cur.Items)
       IN  /\ submitted' = Append(submitted, reqs)
           /\ stack' = << Frame(DstTable, reqs) >>
    /\ delivered' = Append(delivered, Handed(cur, fetched))
    /\ ipc' = "batch"
    /\ UNCHANGED << itKind, wantLimit, inLimit, hasLimit, limit, seen, pageSize,
                    startKey, token, more, cur, pageError, itErr, itResult,
                    fetched, callNo, firstRows >>
    /\ UNCHANGED << bwInput, bwResult, calls, retries, applied >>
    /\ UNCHANGED << job, tables, engineVars >>

\* lines 294-298 / 320-324 and 65-66 / 267-268: BatchWriter has returned;
\* the callback returns its error, or nil, and the count is dropped
SW_CallbackReturn ==
    /\ job = "sweep"
    /\ ipc = "batch"
    /\ bwResult # << >>
    /\ pageError' = bwResult[2]
    /\ ipc' = IF Continue(bwResult[2]) THEN "next" ELSE "finish"
    /\ bwResult' = << >>
    /\ UNCHANGED << itKind, wantLimit, inLimit, hasLimit, limit, seen, pageSize,
                    startKey, token, more, cur, itErr, itResult, delivered,
                    fetched, submitted, callNo, firstRows >>
    /\ UNCHANGED << bwInput, stack, calls, retries, applied >>
    /\ UNCHANGED << job, tables, engineVars >>

\* ScanDeleter / QueryDeleter is about to be called on table "B" with the
\* PK/SK extractor
SweepInit ==
    /\ job = "sweep"
    /\ itKind = "plain"
    /\ wantLimit = NoLimit
    /\ IterStart

NextSweep ==
    \/ IT_Start
    \/ IT_FetchErr
    \/ IT_NoMore
    \/ IT_Page
    \/ SW_Callback
    \/ BW_CallOk
    \/ BW_CallErr
    \/ BW_Return
    \/ SW_CallbackReturn
    \/ IT_Return

SpecSweep == SweepInit /\ [][NextSweep]_vars

\* ------------------------------------------------- Builder, as it is used
\* the queries handed to the expression calls: one and two placeholders
Queries ==
    { << "'f'", " = ", "?" >>,
      << "'f'", " = ", "?", " AND ", "'g'", " = ", "?" >> }

\* the raw values handed as inputs: an int, and a value of a type
\* typeToAttributeVal does not know
RawValues == { << "int", 1 >>, << "chan", 0 >> }

\* the input lists of 0 .. MaxInputs raw values
InputLists == UNION { [1 .. n -> RawValues] : n \in 0 .. MaxInputs }

\* the additionalKVs lists handed to Key: none, a name without a value, a
\* name and a value, a name that is no string
KeyLists ==
    { << >>,
      << << "string", "SK" >> >>,
      << << "string", "SK" >>, << "int", 1 >> >>,
      << << "int", 1 >>, << "int", 1 >> >> }

\* an error returned by the store to a terminal operation
StoreErr == <<"store", 0>>

\* an error returned by dynamodbattribute.MarshalMap
MarshalErr == <<"marshal", 0>>

\* a chaining call op(query, vals) that leaves the builder as nb
Chained(op, query, vals, nb) ==
    /\ bcall.n < MaxChain
    /\ builder' = nb
    /\ bcall' = [n |-> bcall.n + 1, op |-> op, query |-> query,
                 vals |-> vals, err |-> builder.err]
    /\ bout' = NoOut
    /\ UNCHANGED << job, noLock, parentDone, scanVars, copyVars, storeVars,
                    batchVars, iterVars >>

B_Condition ==
    /\ job = "build"
    /\ \E q \in Queries, v \in InputLists :
           Chained("Condition", q, v, Condition(builder, q, v))

B_OrCondition ==
    /\ job = "build"
    /\ \E q \in Queries, v \in InputLists :
           Chained("OrCondition", q, v, OrCondition(builder, q, v))

B_WhereKey ==
    /\ job = "build"
    /\ \E q \in Queries, v \in InputLists :
           Chained("WhereKey", q, v, WhereKey(builder, q, v))

B_Where ==
    /\ job = "build"
    /\ \E q \in Queries, v \in InputLists :
           Chained("Where", q, v, Where(builder, q, v))

B_Update ==
    /\ job = "build"
    /\ \E q \in Queries, v \in InputLists :
           Chained("Update", q, v, Update(builder, q, v))

B_OrWhere ==
    /\ job = "build"
    /\ \E q \in Queries, v \in InputLists :
           Chained("OrWhere", q, v, OrWhere(builder, q, v))

B_IN ==
    /\ job = "build"
    /\ \E v \in InputLists :
           Chained("IN", << "'f'" >>, v, BuilderIN(builder, "'f'", v))

B_Key ==
    /\ job = "build"
    /\ \E value \in RawValues, kvs \in KeyLists :
           Chained("Key", << "PK" >>, << value >> \o kvs,
                   Key(builder, "PK", value, kvs))

B_Client ==
    /\ job = "build"
    /\ \E c \in { NoClient, "client" } :
           Chained("Client", << >>, << << "client", 0 >> >>, Client(builder, c))

B_Table ==
    /\ job = "build"
    /\ \E tbl \in { "", DstTable } :
           Chained("Table", << tbl >>, << >>, Table(builder, tbl))

B_Limit ==
    /\ job = "build"
    /\ \E lim \in 0 .. 1 :
           Chained("Limit", << >>, << << "int", lim >> >>, Limit(builder, lim))

B_Index ==
    /\ job = "build"
    /\ \E idx \in { "", "SomeIndex" } :
           Chained("Index", << idx >>, << >>, Index(builder, idx))

\* a terminal or To* call op: pre is the error found before any store
\* request, or nil, and then the store is called and answers
Terminal(op, pre) ==
    /\ \E r \in (IF pre = Nil THEN { Nil, StoreErr } ELSE { pre }) :
          bout' = [op |-> op, err |-> r, called |-> (pre = Nil)]
    /\ UNCHANGED << builder, bcall >>
    /\ UNCHANGED << job, noLock, parentDone, scanVars, copyVars, storeVars,
                    batchVars, iterVars >>

\* a To* call op, which builds a request and calls nothing
Built(op, out) ==
    /\ bout' = [op |-> op, err |-> out.err, called |-> FALSE]
    /\ UNCHANGED << builder, bcall >>
    /\ UNCHANGED << job, noLock, parentDone, scanVars, copyVars, storeVars,
                    batchVars, iterVars >>

B_ToDelete ==
    /\ job = "build"
    /\ Built("ToDelete", ToDelete(builder))

B_ToQuery ==
    /\ job = "build"
    /\ Built("ToQuery", ToQuery(builder))

B_ToScan ==
    /\ job = "build"
    /\ Built("ToScan", ToScan(builder))

\* Builder.GetItem: lines 256-268
B_GetItem ==
    /\ job = "build"
    /\ Terminal("GetItem", EntryErr(builder))

\* Builder.PutItem: lines 305-320; ToPut fails when the data cannot be
\* marshalled
B_PutItem ==
    /\ job = "build"
    /\ \E marshal \in { Nil, MarshalErr } :
           Terminal("PutItem",
                    IF EntryErr(builder) # Nil THEN EntryErr(builder)
                                               ELSE marshal)

\* Builder.UpdateItem: lines 323-335
B_UpdateItem ==
    /\ job = "build"
    /\ Terminal("UpdateItem", EntryErr(builder))

\* Builder.DeleteItem: lines 338-349
B_DeleteItem ==
    /\ job = "build"
    /\ Terminal("DeleteItem",
                IF ToDelete(builder).err # Nil THEN ToDelete(builder).err
                ELSE IF builder.client = NoClient THEN ErrClientNotSet
                ELSE Nil)

\* Builder.QueryIterate: lines 353-366
B_QueryIterate ==
    /\ job = "build"
    /\ Terminal("QueryIterate",
                IF EntryErr(builder) # Nil THEN EntryErr(builder)
                                           ELSE ToQuery(builder).err)

\* Builder.ScanIterate: lines 418-429
B_ScanIterate ==
    /\ job = "build"
    /\ Terminal("ScanIterate", EntryErr(builder))

\* Builder.ParallelScanIterate: lines 433-444
B_ParallelScanIterate ==
    /\ job = "build"
    /\ Terminal("ParallelScanIterate", EntryErr(builder))

\* Builder.QueryDelete: lines 448-459
B_QueryDelete ==
    /\ job = "build"
    /\ Terminal("QueryDelete", EntryErr(builder))

\* Builder.ScanDelete: lines 463-474
B_ScanDelete ==
    /\ job = "build"
    /\ Terminal("ScanDelete", EntryErr(builder))

\* a fresh builder, on which up to MaxChain chaining calls are made, with
\* terminal and To* calls in between
BuilderInit ==
    /\ job = "build"
    /\ EngineIdle
    /\ StoreInit
    /\ BatchIdle
    /\ IterIdle

NextBuilder ==
    \/ B_Condition
    \/ B_OrCondition
    \/ B_WhereKey
    \/ B_Where
    \/ B_Update
    \/ B_OrWhere
    \/ B_IN
    \/ B_Key
    \/ B_Client
    \/ B_Table
    \/ B_Limit
    \/ B_Index
    \/ B_ToDelete
    \/ B_ToQuery
    \/ B_ToScan
    \/ B_GetItem
    \/ B_PutItem
    \/ B_UpdateItem
    \/ B_DeleteItem
    \/ B_QueryIterate
    \/ B_ScanIterate
    \/ B_ParallelScanIterate
    \/ B_QueryDelete
    \/ B_ScanDelete

SpecBuilder == BuilderInit /\ [][NextBuilder]_vars

\* ================================================================ claims
\* the workers that are inside the caller's callback
InFn == { w \in Segs : wpc[w] = "fn" }

\* segment w was paged to its last page and every callback returned nil
Exhausted(w) == wpc[w] = "done" /\ werr[w] = Nil /\ last[w] /\ e[w] = Nil

\* C1: with a parent context that is never cancelled, when some page source
\* or callback has returned an error, ParallelScanIterator returns one of
\* the errors the workers produced (stated as the claim; the code breaks it)
C1_ErrorSurfaced ==
    (job = "scan" /\ cpc = "returned" /\ ~parentDone /\ produced # {})
        => result \in produced

\* C2: ParallelScanIterator returns nil only when every segment was paged to
\* exhaustion without error; a scan cut short by the caller's cancellation
\* returns a non-nil error (stated as the claim; the code breaks it)
C2_NilOnlyWhenExhausted ==
    (job = "scan" /\ cpc = "returned" /\ result = Nil)
        => \A w \in Segs : Exhausted(w)

\* C3: with callback serialization (noLock = FALSE) at most one invocation
\* of the caller's callback is executing across all segment workers
C3_MutualExclusion ==
    (job = "scan" /\ ~noLock) => Cardinality(InFn) <= 1

\* a worker is inside the callback while another one waits for the mutex
C3_Witness ==
    /\ job = "scan" /\ ~noLock
    /\ \E w, v \in Segs : wpc[w] = "fn" /\ wpc[v] = "lock" /\ mu = w

\* with noLock = TRUE two invocations of the callback overlap
C3_OverlapUnlocked ==
    job = "scan" /\ noLock /\ Cardinality(InFn) >= 2

\* C4: exactly N workers are spawned; every page request carries
\* TotalSegments = N and a Segment in [0, N); worker w holds segment w in its
\* own descriptor copy, and a worker that has not assigned its segment yet
\* still holds the unassigned copy it was spawned with
C4_Segments ==
    job = "scan" =>
        /\ \A r \in requests : r[1] \in Segs /\ r[2] = Workers
        /\ Cardinality({ w \in Segs : wpc[w] # "idle" }) = spawned
        /\ cpc \in { "select", "returned" } => spawned = Workers
        /\ \A w \in Segs :
              /\ wpc[w] \notin { "idle", "start" } =>
                    arg[w] = [TotalSegments |-> Workers, Segment |-> w]
              /\ wpc[w] = "start" =>
                    arg[w] = [TotalSegments |-> Workers, Segment |-> NoSegment]

\* every worker has received a page: the requests sent name each of the N
\* segments, all with TotalSegments = N
C4_Witness ==
    /\ job = "scan"
    /\ requests = { << w, Workers >> : w \in Segs }
    /\ \A w \in Segs : page[w] >= 1

\* C5: at most one error is surfaced, the error channel never holds more
\* than one error, and the surfaced error is an error of a page source or of
\* the callback, or the context's error; never the "exit early" sentinel
C5_SurfacedError ==
    job = "scan" =>
        /\ Len(errChan) <= ErrChanCap
        /\ cpc # "returned" => result = Nil
        /\ (cpc = "returned" /\ result # Nil) =>
              /\ result \in produced \cup { Canceled }
              /\ result # ExitEarly

\* two workers failed; one error was surfaced, the other worker found the
\* slot occupied and left with the sentinel
C5_Witness ==
    /\ job = "scan" /\ cpc = "returned" /\ result \in produced
    /\ \E w \in Segs : werr[w] = ExitEarly /\ wpc[w] = "done"

\* no page request and no put has failed, and nobody cancelled the context
NoFault ==
    produced = {} /\ putFailed = {} /\ ~policyCancelled /\ ~parentDone

\* the copy is not fully applied: a segment was not paged to its end, or a
\* row the scan yielded is not in the destination
Incomplete ==
    \/ \E w \in Segs : ~Exhausted(w)
    \/ \E r \in yielded : puts[r] = 0

\* C6: in a run without scan error, write error and cancellation CopyTable
\* returns nil, and by then every segment is exhausted and every row the
\* scan yielded has been put to the destination exactly once
C6_Conservation ==
    (job = "copy" /\ kpc = "returned" /\ NoFault) =>
        /\ copyResult = Nil
        /\ \A w \in Segs : Exhausted(w)
        /\ dataChan = << >>
        /\ \A r \in Rows :
              IF r \in yielded THEN puts[r] = 1 /\ attempts[r] = 1
                               ELSE puts[r] = 0 /\ attempts[r] = 0

\* a fault-free copy of the whole table has returned
C6_Witness ==
    /\ job = "copy" /\ kpc = "returned" /\ NoFault
    /\ yielded = Rows
    /\ \A r \in Rows : puts[r] = 1

\* C7: with the abort policy, if a put or the source scan has failed,
\* CopyTable returns a non-nil error (stated as the claim; the code breaks it)
C7_AbortReturnsError ==
    (job = "copy" /\ onError = "nil" /\ kpc = "returned"
        /\ (putFailed # {} \/ produced # {}))
        => copyResult # Nil

\* C8: on the abort path the context is cancelled as soon as the error is
\* taken, and CopyTable returns that error only after the completion signal,
\* when the producer and every writer have finished, so no writer issues a
\* put afterwards
C8_AbortWaitsForDrain ==
    (job = "copy" /\ onError = "nil") =>
        /\ kpc = "drain" => (copyCancelled /\ kerr # Nil)
        /\ (kpc = "returned" /\ kerr # Nil) =>
              /\ copyResult = kerr
              /\ copyCancelled
              /\ complete
              /\ ppc = "done"
              /\ \A k \in Writers : tpc[k] = "done"
              /\ working = 0

\* the abort path has returned a put error after another row was written
C8_Witness ==
    /\ job = "copy" /\ onError = "nil" /\ kpc = "returned"
    /\ \E r \in Rows : copyResult = PutErr(r)
    /\ \E r \in Rows : puts[r] = 1

\* C9: when the shared context was cancelled, by the caller or by the error
\* policy, before the copy was complete, CopyTable returns the context's
\* cancellation error (stated as the claim; the code breaks it)
C9_CancelReturnsCanceled ==
    (job = "copy" /\ kpc = "returned" /\ (parentDone \/ policyCancelled)
        /\ Incomplete)
        => copyResult = Canceled

\* C10: with a policy that never cancels (and no scan failure), every row
\* the scan yielded is put exactly once, hence a failed put is not retried
\* and the other rows are written; every put error is passed to onError; and
\* CopyTable returns nil (stated as the claim; the code breaks it)
C10_ContinuePolicy ==
    (job = "copy" /\ onError = "set" /\ kpc = "returned"
        /\ ~policyCancelled /\ ~parentDone /\ produced = {})
        =>
        /\ copyResult = Nil
        /\ \A r \in yielded : attempts[r] = 1
        /\ \A r \in yielded \ putFailed : puts[r] = 1
        /\ \A r \in putFailed : PutErr(r) \in handled

\* the part of C10 the code keeps: rows are put at most once, failed rows
\* are dropped, all other rows are written, and nil is returned
C10_DataMovement ==
    (job = "copy" /\ onError = "set" /\ kpc = "returned"
        /\ ~policyCancelled /\ ~parentDone /\ produced = {})
        =>
        /\ copyResult = Nil
        /\ \A r \in yielded : attempts[r] = 1
        /\ \A r \in yielded \ putFailed : puts[r] = 1
        /\ \A r \in putFailed : puts[r] = 0

\* ---------------------------------------------------------------------
\* what the destination holds once every source item has been put over it
Overwritten ==
    { x \in DstBefore :
        \A y \in SourceItems :
            extractFields(y, KeyFields) # extractFields(x, KeyFields) }
        \cup SourceItems

\* C11: copy idempotence.  Two successive error-free CopyTable calls from A
\* to B: after the first, B holds every item of A put over what B held
\* under the same key, and the items B held under other keys; after the
\* second, B holds exactly what it held after the first (as many rows, not
\* twice as many).  A is never modified and B is never truncated.
C11_Idempotence ==
    /\ tables[SrcTable] = SourceItems
    /\ \A x \in DstBefore :
         \/ x \in tables[DstTable]
         \/ \E y \in SourceItems :
              extractFields(y, KeyFields) = extractFields(x, KeyFields)
    /\ (kpc = "returned" /\ copyResult = Nil)
         => tables[DstTable] = Overwritten
    /\ (run = 2 /\ kpc = "returned" /\ copyResult = Nil)
         => /\ tables[DstTable] = firstDst
            /\ Cardinality(tables[DstTable]) = Cardinality(firstDst)

\* the second call has returned nil, having put every row again
C11_Witness ==
    /\ run = 2
    /\ kpc = "returned"
    /\ copyResult = Nil
    /\ \A r \in Rows : puts[r] = 1
    /\ firstDst = Overwritten

\* ---------------------------------------------------------------------
\* the outermost BatchWriter call has returned
BatchReturned == job = "batch" /\ bwResult # << >>

\* C12: BatchWriter count.  Against a store that returns no error and
\* eventually reports nothing unprocessed, BatchWriter returns (N, nil) for
\* its N requests, whatever was reported unprocessed on the way; the count
\* it returns never exceeds N.
C12_CountIsSubmitted ==
    BatchReturned =>
        /\ bwResult[1] <= Len(bwInput)
        /\ bwResult[2] = Nil => bwResult[1] = Len(bwInput)

\* a batch-write call issued by the outermost BatchWriter call
OuterCall(c) == c.depth = 1

RECURSIVE Concat(_)
Concat(ss) == IF ss = << >> THEN << >> ELSE Head(ss) \o Concat(Tail(ss))

\* C13: batch chunking.  For N requests ChunkWriteRequests gives ceil(N/25)
\* groups, each of 1 to 25 requests, whose concatenation is the input; the
\* outermost BatchWriter call issues its batch-write calls for these groups,
\* one each and in order, all of them when it returns nil.
C13_Chunking ==
    job = "batch" =>
        LET ch    == ChunkWriteRequests(bwInput)
            n     == Len(bwInput)
            outer == SelectSeq(calls, OuterCall)
        IN  /\ Len(ch) = (n + ChunkSize - 1) \div ChunkSize
            /\ \A i \in 1 .. Len(ch) : Len(ch[i]) >= 1 /\ Len(ch[i]) <= ChunkSize
            /\ Concat(ch) = bwInput
            /\ Len(outer) <= Len(ch)
            /\ \A i \in 1 .. Len(outer) :
                    outer[i].requests = ch[i] /\ outer[i].table = DstTable
            /\ (BatchReturned /\ bwResult[2] = Nil) => Len(outer) = Len(ch)

\* 51 requests have gone out as groups of 25, 25 and 1, and BatchWriter has
\* returned nil
C13_Witness ==
    /\ BatchReturned
    /\ bwResult[2] = Nil
    /\ Len(bwInput) = 2 * ChunkSize + 1
    /\ LET outer == SelectSeq(calls, OuterCall)
       IN  /\ Len(outer) = 3
           /\ Len(outer[1].requests) = ChunkSize
           /\ Len(outer[2].requests) = ChunkSize
           /\ Len(outer[3].requests) = 1

\* the errors held by the activation records and by the returned result
BatchErrors ==
    { stack[d].err : d \in 1 .. Len(stack) }
        \cup (IF bwResult = << >> THEN {} ELSE { bwResult[2] })

\* C14: BatchWriter error abort.  Once a batch-write call has returned an
\* error, at the top level or inside a retry, no further store call is
\* issued, and BatchWriter returns that error with the number of requests
\* written by the calls that succeeded before it.
C14_ErrorAbort ==
    job = "batch" =>
        /\ \A n \in 1 .. Len(calls) :
                BatchErr(n) \in BatchErrors => Len(calls) = n
        /\ (BatchReturned /\ bwResult[2] # Nil)
                => /\ bwResult[2] = BatchErr(Len(calls))
                   /\ bwResult[1] = Len(applied)

\* C14 (first half): the failing batch-write call is the last store call,
\* and its error is the one BatchWriter returns.
C14_NoFurtherCall ==
    job = "batch" =>
        /\ \A n \in 1 .. Len(calls) :
                BatchErr(n) \in BatchErrors => Len(calls) = n
        /\ (BatchReturned /\ bwResult[2] # Nil)
                => bwResult[2] = BatchErr(Len(calls))

\* ---------------------------------------------------------------------
Min(a, b) == IF a < b THEN a ELSE b

\* the rows the running call is after: those the filter accepts from the
\* call's start key on, in key order
AllRows == RowsAfter(tables[DstTable], startKey)

\* the j-th page the source yields to the running call
RECURSIVE PageNo(_, _, _, _)
PageNo(tbl, key, size, j) ==
    LET pg == PageAfter(tbl, key, size)
    IN  IF j = 1 THEN pg ELSE PageNo(tbl, pg.LastEvaluatedKey, size, j - 1)

SourcePage(j) == PageNo(tables[DstTable], startKey, pageSize, j)

\* rows in the first j pages of the source
RECURSIVE CumRows(_)
CumRows(j) == IF j = 0 THEN 0 ELSE CumRows(j - 1) + Len(SourcePage(j).Items)

\* the iterator has returned nil
IterReturnedNil == ipc = "done" /\ itResult = Nil

\* C17: limit-aware iteration.  With a client-side limit L the rows handed
\* to the callback over the whole iteration are a prefix, in page order, of
\* the rows the source yields, never more than L of them, and exactly the
\* first min(L, total) when the iterator returns nil: the page on which the
\* limit is crossed is handed over trimmed to its admitted prefix.
C17_LimitAware ==
    (job = "iterate" /\ wantLimit # NoLimit /\ ipc # "start") =>
        LET rows == RowsOf(delivered)
        IN  /\ Len(rows) <= wantLimit
            /\ rows = SubSeq(AllRows, 1, Len(rows))
            /\ IterReturnedNil
                 => rows = SubSeq(AllRows, 1, Min(wantLimit, Len(AllRows)))

\* three pages (2, 2 and 1 rows) and a limit of 3: the callback has been
\* invoked exactly twice, the second time with the page trimmed to one row
C17_Witness ==
    /\ job = "iterate"
    /\ wantLimit = 3
    /\ IterReturnedNil
    /\ callNo = 1
    /\ Len(AllRows) = 5
    /\ fetched = 3
    /\ Len(delivered) = 2
    /\ Len(delivered[1].Items) = 2
    /\ Len(delivered[2].Items) = 1
    /\ Len(SourcePage(2).Items) = 2

\* C18: limit boundary.  When the limit was reached exactly at the end of
\* a page, the iterator stops at the next page without invoking the
\* callback for it; and the callback is never handed a page that trimming
\* emptied.
C18_LimitBoundary ==
    (job = "iterate" /\ wantLimit # NoLimit /\ ipc # "start") =>
        /\ \A j \in 1 .. fetched :
                (j < fetched /\ Len(SourcePage(j).Items) > 0
                             /\ CumRows(j) = wantLimit)
                    => /\ fetched = j + 1
                       /\ \A i \in 1 .. Len(delivered) : delivered[i].n # j + 1
        /\ \A i \in 1 .. Len(delivered) :
                Len(delivered[i].Items) = 0
                    => Len(SourcePage(delivered[i].n).Items) = 0

\* C18 (second half): the callback is never handed a page that trimming
\* emptied, and after a page that ended exactly on the limit it is never
\* handed a page that has rows.
C18_NeverEmptied ==
    (job = "iterate" /\ wantLimit # NoLimit /\ ipc # "start") =>
        \A i \in 1 .. Len(delivered) :
            /\ Len(delivered[i].Items) = 0
                    => Len(SourcePage(delivered[i].n).Items) = 0
            /\ (delivered[i].n > 1 /\ CumRows(delivered[i].n - 1) >= wantLimit)
                    => Len(SourcePage(delivered[i].n).Items) = 0

\* the last output the callback was handed
LastOut == delivered[Len(delivered)]

\* the output was handed over with fewer rows than its page had
Trimmed(out) == Len(out.Items) < Len(SourcePage(out.n).Items)

\* the rows the filter accepts in the whole table
WholeRows == RowsAfter(tables[DstTable], NoKey)

\* the resumed call has delivered the rows that follow those of the first
\* call, none skipped and none repeated, up to the limit
ResumedInOrder ==
    (callNo = 2 /\ IterReturnedNil) =>
        /\ firstRows \o AllRows = WholeRows
        /\ RowsOf(delivered) =
              SubSeq(AllRows, 1, IF wantLimit = NoLimit THEN Len(AllRows)
                                 ELSE Min(wantLimit, Len(AllRows)))

\* C19: continuation token (QueryIteratorV2 / ScanIteratorV2).  The last
\* output handed to the callback carries a non-empty token if and only if
\* rows beyond the delivered ones exist; on a trimmed page the token is the
\* key fields of the last delivered row; and a call resumed from the token
\* with the same limit delivers the following rows, none skipped or
\* repeated.
C19_TokenIffMore ==
    (job = "iterate" /\ itKind = "v2" /\ IterReturnedNil) =>
        /\ delivered # << >> =>
              /\ (LastOut.LastEvaluatedKey # NoKey)
                    <=> (Len(AllRows) > Len(RowsOf(delivered)))
              /\ Trimmed(LastOut)
                    => LastOut.LastEvaluatedKey
                         = extractFields(LastOut.Items[Len(LastOut.Items)], KeyFields)
        /\ ResumedInOrder

\* C19 as amended: the token is non-empty whenever rows beyond the
\* delivered ones exist, and exactly when the page was trimmed or the store
\* reported a further page (which may hold no row the filter accepts); the
\* rest as claimed.
C19_TokenWhenMore ==
    (job = "iterate" /\ itKind = "v2" /\ IterReturnedNil) =>
        /\ delivered # << >> =>
              /\ (Len(AllRows) > Len(RowsOf(delivered)))
                    => LastOut.LastEvaluatedKey # NoKey
              /\ (LastOut.LastEvaluatedKey # NoKey)
                    <=> \/ Trimmed(LastOut)
                        \/ SourcePage(LastOut.n).LastEvaluatedKey # NoKey
              /\ Trimmed(LastOut)
                    => LastOut.LastEvaluatedKey
                         = extractFields(LastOut.Items[Len(LastOut.Items)], KeyFields)
        /\ ResumedInOrder

\* four rows in pages of three, limit 2: the first call delivered rows 1-2
\* of the trimmed first page with a token synthesized from row 2, and the
\* call resumed from it has delivered rows 3-4 with an empty token
C19_Witness ==
    /\ job = "iterate"
    /\ itKind = "v2"
    /\ callNo = 2
    /\ IterReturnedNil
    /\ wantLimit = 2
    /\ Len(WholeRows) = 4
    /\ firstRows = SubSeq(WholeRows, 1, 2)
    /\ startKey = extractFields(WholeRows[2], KeyFields)
    /\ RowsOf(delivered) = SubSeq(WholeRows, 3, 4)
    /\ LastOut.LastEvaluatedKey = NoKey
    /\ pageSize = 3

\* the table as it was before the sweep: what it holds now and the rows
\* whose delete the store has applied
SweptTable ==
    tables[DstTable]
        \cup { Item(applied[i].DeleteRequest.Key.SK) : i \in 1 .. Len(applied) }

\* the j-th page of the sweep's scan
SweptPage(j) == PageNo(SweptTable, NoKey, pageSize, j)

\* C15: deletion sweep.  ScanDeleter / QueryDeleter take the pages one after
\* the other and give BatchWriter, for each page, exactly one delete request
\* per row of the page, in row order, keyed by keyExtractor(row) and
\* addressed to the target table; a sweep of a single page of rows against
\* a store that leaves nothing unprocessed is exactly one batch-write call
\* with one delete request per row, and returns nil.
C15_Sweep ==
    job = "sweep" =>
        /\ Len(submitted) = Len(delivered)
        /\ \A i \in 1 .. Len(delivered) :
              /\ delivered[i].n = i
              /\ delivered[i].Items = SweptPage(i).Items
              /\ Len(submitted[i]) = Len(delivered[i].Items)
              /\ \A k \in 1 .. Len(submitted[i]) :
                    submitted[i][k] =
                        [DeleteRequest |->
                            [Key |-> [PK |-> delivered[i].Items[k].PK,
                                      SK |-> delivered[i].Items[k].SK]]]
        /\ \A c \in 1 .. Len(calls) : calls[c].table = DstTable
        /\ (ipc = "done" /\ fetched = 1 /\ retries = 0 /\ itErr = Nil
                /\ pageError = Nil /\ delivered[1].Items # << >>)
              => /\ itResult = Nil
                 /\ Len(calls) = 1
                 /\ calls[1].requests = submitted[1]
                 /\ \A x \in tables[DstTable] : ~Matches(x)

\* a single page of three matching rows has been swept by one batch-write
\* call of three delete requests
C15_Witness ==
    /\ job = "sweep"
    /\ ipc = "done"
    /\ itResult = Nil
    /\ fetched = 1
    /\ retries = 0
    /\ Len(delivered) = 1
    /\ Len(delivered[1].Items) = 3
    /\ Len(calls) = 1
    /\ Len(calls[1].requests) = 3
    /\ Len(applied) = 3

\* C16: deletion sweep abort.  When the page source fails or BatchWriter
\* returns an error for a page, the deleter returns that error, requests no
\* further page and issues no further delete; the deletes applied before
\* stay applied.
C16_SweepAbort ==
    job = "sweep" =>
        /\ \A n \in 1 .. fetched :
              itErr = PageErr(n)
                => /\ fetched = n
                   /\ stack = << >>
                   /\ ipc \in { "finish", "done" }
                   /\ ipc = "done" => itResult = PageErr(n)
        /\ \A n \in 1 .. Len(calls) :
              pageError = BatchErr(n)
                => /\ Len(calls) = n
                   /\ fetched = Len(delivered)
                   /\ stack = << >>
                   /\ ipc \in { "finish", "done" }
                   /\ ipc = "done" => itResult = BatchErr(n)
        /\ \A i \in 1 .. Len(applied) :
              \A x \in tables[DstTable] :
                  extractFields(x, KeyFields) # applied[i].DeleteRequest.Key

\* the batch write of the second page failed after the first page's rows
\* had been deleted; the deleter has returned the error with pages left
C16_Witness ==
    /\ job = "sweep"
    /\ ipc = "done"
    /\ fetched = 2
    /\ more
    /\ Len(applied) >= 1
    /\ Len(calls) >= 2
    /\ itResult = BatchErr(Len(calls))
    /\ \E x \in tables[DstTable] : Matches(x)

\* C20: page-iterator callback protocol (QueryIterator, ScanIterator).
\* When the callback returns an error for a page, no later page is
\* requested, the callback is not invoked again and the iterator returns
\* exactly that error; when it returns nil the iterator goes on to the next
\* page, and it returns nil after the last page.
C20_CallbackProtocol ==
    (job = "iterate" /\ itKind = "plain") =>
        /\ \A k \in 1 .. Len(delivered) :
                pageError = FnErr(k)
                    => /\ Len(delivered) = k
                       /\ fetched = delivered[k].n
                       /\ ipc \in { "finish", "done" }
                       /\ ipc = "done" => itResult = FnErr(k)
        /\ (ipc = "done" /\ itErr = Nil /\ pageError = Nil)
                => /\ itResult = Nil
                   /\ wantLimit = NoLimit
                        => /\ ~more
                           /\ Len(delivered) = fetched
                           /\ \A i \in 1 .. fetched :
                                  delivered[i].Items = SourcePage(i).Items
                           /\ RowsOf(delivered) = AllRows

\* the callback failed on the second of at least three pages and the
\* iterator has returned its error
C20_Witness ==
    /\ job = "iterate"
    /\ itKind = "plain"
    /\ wantLimit = NoLimit
    /\ ipc = "done"
    /\ itResult = FnErr(2)
    /\ fetched = 2
    /\ more

\* ---------------------------------------------------------------------
\* the terminal operations of the Builder that call the store
Terminals ==
    { "QueryIterate", "ScanIterate", "ParallelScanIterate", "QueryDelete",
      "ScanDelete", "GetItem", "PutItem", "UpdateItem", "DeleteItem" }

\* DeleteItem was called on a builder without a key
DeleteWithoutKey == bout.op = "DeleteItem" /\ DOMAIN builder.keys = {}

\* C21: configuration errors come before any store request.  A terminal
\* operation called on a builder that carries a recorded error returns that
\* error; DeleteItem on a builder without a key returns ErrKeyRequired; a
\* terminal operation on a builder without a client returns
\* ErrClientNotSet (the recorded error comes first, the missing key
\* second); and in all three cases no store request was issued.
C21_ConfigErrors ==
    (job = "build" /\ bout.op \in Terminals) =>
        /\ (builder.err # Nil)
             => (bout.err = builder.err /\ ~bout.called)
        /\ (builder.err = Nil /\ DeleteWithoutKey)
             => (bout.err = ErrKeyRequired /\ ~bout.called)
        /\ (builder.err = Nil /\ ~DeleteWithoutKey /\ builder.client = NoClient)
             => (bout.err = ErrClientNotSet /\ ~bout.called)

\* QueryIterate was called on a builder that has a client and carries
\* ErrQueryMisMatch, and returned it without calling the store
C21_Witness ==
    /\ job = "build"
    /\ bout.op = "QueryIterate"
    /\ builder.client # NoClient
    /\ builder.err = ErrQueryMisMatch
    /\ bout.err = ErrQueryMisMatch
    /\ ~bout.called

\* DeleteItem on a builder with a client and no key returned ErrKeyRequired
C21_NoKey ==
    /\ job = "build"
    /\ bout.op = "DeleteItem"
    /\ builder.client # NoClient
    /\ builder.err = Nil
    /\ DOMAIN builder.keys = {}
    /\ bout.err = ErrKeyRequired

\* ---------------------------------------------------------------------
\* C22: builder error short-circuit.  Once the builder carries an error,
\* every chaining call leaves the whole builder as it was: the four
\* expressions, the name and value maps, the keys, the table, limit, index
\* and client, and the error itself, which a later call never overwrites;
\* and ToQuery, ToScan and ToDelete return that error.
C22_ShortCircuit ==
    /\ [](  (job = "build" /\ bout.op \in { "ToQuery", "ToScan", "ToDelete" }
                /\ builder.err # Nil)
            => bout.err = builder.err)
    /\ [][ (job = "build" /\ builder.err # Nil) => builder' = builder ]_vars

\* the builder carried ErrQueryMisMatch when Key was called with a value of
\* an unsupported type, and ToQuery then returned ErrQueryMisMatch
C22_Witness ==
    /\ job = "build"
    /\ bcall.err = ErrQueryMisMatch
    /\ bcall.op = "Key"
    /\ bcall.vals[1] = << "chan", 0 >>
    /\ bout.op = "ToQuery"
    /\ bout.err = ErrQueryMisMatch

\* ---------------------------------------------------------------------
\* the ? placeholders of a query
Placeholders(query) == Cardinality({ i \in DOMAIN query : query[i] = "?" })

\* the expression field an expression call appends to
Target(op) ==
    CASE op = "Where" -> "filterExpresion"
      [] op = "WhereKey" -> "keyExpression"
      [] op = "Condition" -> "conditionExpression"
      [] op = "Update" -> "updateExpression"

\* the step is the call bcall' of Where, WhereKey, Condition or Update, on a
\* builder without an error, with inputs of supported types
ExpressionCall ==
    /\ job = "build"
    /\ bcall'.n = bcall.n + 1
    /\ bcall'.op \in { "Where", "WhereKey", "Condition", "Update" }
    /\ builder.err = Nil
    /\ \A i \in DOMAIN bcall'.vals : bcall'.vals[i][1] = "int"

\* C23: placeholder/input mismatch.  A Where, WhereKey, Condition or Update
\* call whose number of ? placeholders differs from its number of inputs
\* (fewer or more inputs) records ErrQueryMisMatch and leaves the target
\* expression and the value map as they were before the call.
C23_Mismatch ==
    [][ (ExpressionCall /\ Placeholders(bcall'.query) # Len(bcall'.vals))
          => /\ builder'.err = ErrQueryMisMatch
             /\ builder'[Target(bcall'.op)] = builder[Target(bcall'.op)]
             /\ builder'.vals = builder.vals ]_vars

\* the part of C23 the code keeps: a call with fewer inputs than
\* placeholders records ErrQueryMisMatch
C23_FewerInputs ==
    [][ (ExpressionCall /\ Placeholders(bcall'.query) > Len(bcall'.vals))
          => builder'.err = ErrQueryMisMatch ]_vars

\* the first way C23 fails: a call with more inputs than placeholders
\* records no error
C23_MoreInputs ==
    [][ (ExpressionCall /\ Placeholders(bcall'.query) < Len(bcall'.vals))
          => builder'.err = ErrQueryMisMatch ]_vars

\* the second way C23 fails: a call with fewer inputs than placeholders
\* changes the target expression
C23_ExpressionKept ==
    [][ (ExpressionCall /\ Placeholders(bcall'.query) > Len(bcall'.vals))
          => builder'[Target(bcall'.op)] = builder[Target(bcall'.op)] ]_vars

\* the third way C23 fails: a call with fewer inputs than placeholders
\* changes the value map
C23_ValuesKept ==
    [][ (ExpressionCall /\ Placeholders(bcall'.query) > Len(bcall'.vals))
          => builder'.vals = builder.vals ]_vars

\* ---------------------------------------------------------------------
\* the first call after call i that is not deeper than call i: the next
\* chunk of the same activation or of an outer one; Len(calls) + 1 if none
NextShallow(i) ==
    LET later == { j \in (i + 1) .. Len(calls) : calls[j].depth <= calls[i].depth }
    IN  IF later = {} THEN Len(calls) + 1
        ELSE CHOOSE j \in later : \A k \in later : j <= k

\* the calls made by the activations that the response to call i started
GroupCalls(i) ==
    { j \in (i + 1) .. (NextShallow(i) - 1) :
        calls[j].depth = calls[i].depth + 1 }

\* the loop over the groups of the response to call i is over
Settled(i) == NextShallow(i) <= Len(calls) \/ BatchReturned

\* the number of requests a response reports as unprocessed
RECURSIVE LeftOver(_)
LeftOver(out) ==
    IF DOMAIN out = {} THEN 0
    ELSE LET t == CHOOSE x \in DOMAIN out : TRUE
         IN  Len(out[t]) + LeftOver(Rest(out, t))

\* BatchWriter has returned from a call with 1 .. 25 requests in which the
\* first response reported unprocessed requests and no later one did
OneRetryRound ==
    /\ BatchReturned
    /\ Len(bwInput) \in 1 .. ChunkSize
    /\ calls[1].unprocessed # << >>
    /\ \A i \in 2 .. Len(calls) : calls[i].unprocessed = << >>

\* C24 as claimed: with K > 0 requests reported unprocessed by the first
\* response and none afterwards, a call with N <= 25 requests makes exactly
\* 2 batch-write calls, the second with exactly the K unprocessed requests.
C24_TwoCalls ==
    (job = "batch" /\ OneRetryRound) =>
        LET K == LeftOver(calls[1].unprocessed)
            N == Len(bwInput)
        IN  /\ Len(calls) = 2
            /\ calls[2].requests = SubSeq(bwInput, N - K + 1, N)

\* C24 amended: every group of a response is resubmitted by one call of its
\* own, carrying exactly the requests of the group and addressed to the
\* table the response named, all groups before the next chunk; with K > 0
\* requests reported by the first response and none afterwards, a call with
\* N <= 25 requests makes one call more than the response names tables: 2
\* when it names one table, and then the second call carries exactly the K
\* requests, addressed to that table.
C24_RetryPerGroup ==
    job = "batch" =>
        /\ \A i \in DOMAIN calls :
             LET out == calls[i].unprocessed
                 G   == GroupCalls(i)
             IN  /\ \A j \in G :
                       /\ calls[j].table \in DOMAIN out
                       /\ calls[j].requests = out[calls[j].table]
                 /\ \A j, k \in G : (j # k) => (calls[j].table # calls[k].table)
                 /\ Settled(i) => ({ calls[j].table : j \in G } = DOMAIN out)
        /\ OneRetryRound =>
             LET out == calls[1].unprocessed
                 K   == LeftOver(out)
                 N   == Len(bwInput)
             IN  /\ Len(calls) = 1 + Cardinality(DOMAIN out)
                 /\ (Cardinality(DOMAIN out) = 1) =>
                       /\ Len(calls) = 2
                       /\ calls[2].requests = SubSeq(bwInput, N - K + 1, N)
                       /\ calls[2].table \in DOMAIN out

\* a call for table B with three requests whose first response reported the
\* last two under table A has returned after a second call, to table A,
\* with those two requests
C24_Witness ==
    /\ job = "batch"
    /\ OneRetryRound
    /\ Len(bwInput) = 3
    /\ DOMAIN calls[1].unprocessed = { SrcTable }
    /\ Len(calls) = 2
    /\ calls[1].table = DstTable
    /\ calls[2].table = SrcTable
    /\ calls[2].requests = SubSeq(bwInput, 2, 3)

\* a response that named two tables was followed by a call for each
C24_TwoGroups ==
    /\ job = "batch"
    /\ OneRetryRound
    /\ DOMAIN calls[1].unprocessed = { SrcTable, DstTable }
    /\ Len(calls) = 3

\* ---------------------------------------------------------------------
\* the last callback of worker w returned an error
CallbackFailed(w) == e[w] # Nil

\* C25: in a parallel scan a callback error stops the scan of its segment.
\* Once the caller's callback has returned an error for a page of segment
\* w, worker w is never again about to request a page, waiting for the
\* callback lock, or inside the callback.
C25_CallbackErrorStops ==
    job = "scan" =>
        \A w \in Segs :
            CallbackFailed(w) => wpc[w] \notin { "scan", "lock", "fn" }

\* ---------------------------------------------------------------------
\* worker w is at one of its two error-reporting selects
Reporting(w) == wpc[w] \in { "report", "final" }

\* worker w can leave the error-reporting select it is at
CanReport(w) ==
    ENABLED (\/ PSW_ReportCtxDone(w) \/ PSW_ReportSend(w) \/ PSW_ReportDefault(w)
             \/ PSW_FinalReturn(w) \/ PSW_FinalSend(w))

\* every worker has returned and the wait-and-cancel task has cancelled
AllFinished == (\A w \in Segs : wpc[w] = "done") /\ waiter = "done"

\* C26: scan workers never block on error reporting and always terminate.
\* A worker at an error-reporting select can always take a step; when the
\* single-slot error channel is full the step puts nothing in the channel
\* and takes the worker towards its exit; once the worker context is
\* cancelled no worker requests another page; and under fair scheduling,
\* with a page source that answers and a callback that returns, all workers
\* and the wait-and-cancel task finish and stay finished, whether or not
\* ParallelScanIterator has returned before.
C26_WorkersTerminate ==
    /\ [](job = "scan" => \A w \in Segs : Reporting(w) => CanReport(w))
    /\ [][ \A w \in Segs :
             (Reporting(w) /\ ~HasRoom(errChan, ErrChanCap) /\ wpc'[w] # wpc[w])
                => (wpc'[w] \in { "final", "done" } /\ errChan' = errChan) ]_vars
    /\ [][ WorkerCtxDone => (page' = page /\ requests' = requests) ]_vars
    /\ <>[]AllFinished

\* everything has finished after ParallelScanIterator returned the error of
\* one worker while another worker, finding the channel full, dropped its own
C26_Witness ==
    /\ job = "scan"
    /\ AllFinished
    /\ cpc = "returned"
    /\ result # Nil
    /\ \E w \in Segs : werr[w] = ExitEarly

\* ---------------------------------------------------------------------
\* C27: CopyTable runs its source scan with callback serialization: at most
\* one invocation of the producer callback is executing across the scan's
\* segment workers.
C27_ProducerSerialized == job = "copy" => Cardinality(InFn) <= 1

\* ---------------------------------------------------------------------
\* writer k is at the select that reports the error of its put
WriterReporting(k) == tpc[k] = "report"

\* writer k can leave the error-reporting select
WriterCanReport(k) == ENABLED (CTW_ReportCtxDone(k) \/ CTW_ReportSend(k))

\* the error channel has no room for another error
ErrChanBusy == ~HasRoom(copyErrChan, CopyErrChanCap)

\* a writer is never parked at the error-reporting select
C28_NeverParked ==
    job = "copy" => \A k \in Writers : WriterReporting(k) => WriterCanReport(k)

\* a writer that leaves the select while the channel is busy and the context
\* is not done has dropped its error
C28_DropsWhenBusy ==
    \A k \in Writers :
        (WriterReporting(k) /\ ~WriterReporting(k)' /\ ErrChanBusy /\ ~CtxDone)
            => copyErrChan' = copyErrChan

\* C28: CopyTable's writers report a put error with a non-blocking send: a
\* writer at the error-reporting select is never parked, and when the channel
\* is busy while the context is not done the writer drops its error and goes
\* on to the next row.
C28_NonBlockingReport == []C28_NeverParked /\ [][C28_DropsWhenBusy]_vars

\* ---------------------------------------------------------------------
\* C29: CopyTable's error channel is single-slot and at most one error is
\* reported per invocation: the channel never holds more than one error and
\* the control loop takes at most one error from it, so a caller's error
\* policy is invoked at most once.
C29_SingleError ==
    job = "copy" => (Len(copyErrChan) <= 1 /\ Cardinality(handled) <= 1)

\* the control loop takes a second error, the policy having been invoked
\* once already
C29_SecondHandled == job = "copy" => Cardinality(handled) <= 1

\* ---------------------------------------------------------------------
\* the producer callback of segment w has a row to send and the row channel
\* is full
SendBlocked(w) ==
    job = "copy" /\ wpc[w] = "fn" /\ ~HasRoom(dataChan, DataChanCap)

\* the row channel never holds more rows than its capacity
C30_Bounded == job = "copy" => Len(dataChan) <= DataChanCap

\* a callback whose send finds the channel full does not go on while the
\* context is live
C30_Waits ==
    \A w \in Segs :
        (SendBlocked(w) /\ ~CtxDone)
            => (wpc'[w] = "fn" /\ fnIdx'[w] = fnIdx[w])

\* a callback that leaves a send that found the channel full and the context
\* cancelled returns the context's error and has not sent the row
C30_CancelledSend ==
    \A w \in Segs :
        (SendBlocked(w) /\ CtxDone /\ wpc'[w] # "fn")
            => (e'[w] = Canceled /\ wpc'[w] = "check" /\ dataChan' = dataChan)

\* C30: backpressure.  The row channel of a CopyTable job with W workers
\* never holds more than W rows; a producer callback whose send finds the
\* channel full waits until a writer takes a row or the shared context is
\* cancelled, and in the latter case returns the context's error without
\* sending the row.
C30_Backpressure ==
    /\ []C30_Bounded
    /\ [][C30_Waits]_vars
    /\ [][C30_CancelledSend]_vars

C30_WaitsProp == [][C30_Waits]_vars

C30_CancelledProp == [][C30_CancelledSend]_vars

\* ---------------------------------------------------------------------
\* writer k returns from copyTableWorker in this step
WriterExits(k) == tpc[k] # "done" /\ tpc'[k] = "done"

\* the three exits of copyTableWorker
ExitGuard(k) ==
    \/ CtxDone
    \/ tpc[k] = "select" /\ dataClosed /\ dataChan = << >>
    \/ tpc[k] = "idle" /\ readComplete /\ working = 0 /\ Len(dataChan) = 0

\* every writer has returned
WritersGone == \A k \in Writers : tpc[k] = "done"

ProducerGone == ppc = "done"

\* C32: drain and completion ordering in CopyTable.  The producer closes
\* the row channel and then signals read-complete, each exactly once,
\* whether the scan succeeded or failed, so read-complete signalled implies
\* row channel closed; the completion signal is raised only after the
\* producer and all writers have finished; and CopyTable returns nil only
\* after the completion signal.
C32_DrainOrder ==
    /\ [](job = "copy" => (readComplete => dataClosed))
    /\ [](job = "copy" /\ ProducerGone => (dataClosed /\ readComplete))
    /\ [][ dataClosed' # dataClosed
              => (~dataClosed /\ ~readComplete /\ ppc = "scan") ]_vars
    /\ [][ readComplete' # readComplete
              => (~readComplete /\ dataClosed /\ ppc = "closed") ]_vars
    /\ [][ (~complete /\ complete') => (ProducerGone /\ WritersGone) ]_vars
    /\ [][ (kpc # "returned" /\ kpc' = "returned" /\ copyResult' = Nil)
              => complete ]_vars

\* CopyTable has returned nil after a failed scan: the producer closed both
\* channels and reported the error, which the caller's policy took
C32_Witness ==
    /\ job = "copy"
    /\ kpc = "returned"
    /\ copyResult = Nil
    /\ perr # Nil
    /\ complete
    /\ dataClosed
    /\ readComplete

\* ---------------------------------------------------------------------
\* C33 as stated: the shared context of ParallelScanIterator and of
\* CopyTable is cancelled by the time the operation returns, and its cancel
\* function is invoked exactly once per operation.
C33_CancelledOnce ==
    job = "copy" =>
        /\ cpc = "returned" => (workerCancelled /\ scanCancels = 1)
        /\ kpc = "returned" => (copyCancelled /\ copyCancels = 1)
        /\ scanCancels <= 1
        /\ copyCancels <= 1

\* C33, amended: each context is cancelled by the time its operation
\* returns, on every return path, and stays cancelled; its cancel function
\* has been invoked at least once by then.  ParallelScanIterator invokes it
\* at most twice (the wait-and-cancel task and the deferred call); CopyTable
\* invokes it at most twice under the abort policy (on the error and
\* deferred) and, under a caller's policy, once (deferred) beyond the calls
\* the policy itself makes.
C33_ContextLifecycle ==
    /\ [](job = "copy" =>
            /\ cpc = "returned" => (workerCancelled /\ scanCancels >= 1)
            /\ kpc = "returned" => (copyCancelled /\ copyCancels >= 1)
            /\ scanCancels <= 2
            /\ onError = "nil" => copyCancels <= 2
            /\ (onError = "set" /\ ~policyCancelled) => copyCancels <= 1)
    /\ [][ (workerCancelled => workerCancelled')
           /\ (copyCancelled => copyCancelled') ]_vars

\* both operations have returned and both cancel functions were called twice
C33_Witness ==
    /\ job = "copy"
    /\ cpc = "returned"
    /\ kpc = "returned"
    /\ scanCancels = 2
    /\ copyCancels = 2

\* ---------------------------------------------------------------------
\* a goroutine of the copy job waits on the row channel or the error channel
BlockedOnChannel ==
    \/ \E w \in Segs : wpc[w] = "fn"
    \/ \E k \in Writers : tpc[k] \in { "select", "report" }
    \/ ppc = "report"

\* C34: CopyTable terminates without deadlock.  With a finite source scan,
\* store calls and a policy that return, and fair scheduling, CopyTable
\* eventually returns, under both policies and for any pattern of put and
\* scan failures, and no writer, scan worker or producer stays blocked
\* forever on the row channel or the error channel.
C34_Terminates ==
    /\ <>(kpc = "returned")
    /\ <>[]~BlockedOnChannel

\* CopyTable returns unless a send on the closed row channel has panicked
C34_ReturnsOrPanics == <>(kpc = "returned" \/ panicked)

\* ---------------------------------------------------------------------
\* C35: no send on a closed row channel.  In every reachable state of a
\* CopyTable job the row channel is closed only after every scan worker's
\* callback has stopped sending: no producer callback is inside its send
\* loop while the channel is closed, and no send on it has panicked.
C35_NoSendOnClosed ==
    job = "copy" => (~panicked /\ (dataClosed => InFn = {}))

\* C36: no callback after return.  Once ParallelScanIterator has returned,
\* the caller's callback is not executing and no worker invokes it again.
C36_NoCallbackAfterReturn ==
    /\ [](job = "scan" /\ cpc = "returned" => \A w \in Segs : wpc[w] # "fn")
    /\ [][ (job = "scan" /\ cpc = "returned")
              => \A w \in Segs : (wpc'[w] = "fn" => wpc[w] = "fn") ]_vars

\* ---------------------------------------------------------------------
\* the callback has been handed the L-th row of a client-side limit L
LimitReached ==
    /\ job = "iterate"
    /\ wantLimit # NoLimit
    /\ wantLimit > 0
    /\ Len(RowsOf(delivered)) >= wantLimit

\* C37: the trimmed page is the final page.  In the limit-aware iterators,
\* once the callback has received the L-th row, no further page request is
\* issued to the page source.
C37_NoRequestAfterLimit ==
    [][ (LimitReached /\ callNo' = callNo) => fetched' = fetched ]_vars

\* ---------------------------------------------------------------------
\* every batch-write call made so far reported at least one unprocessed item
AlwaysUnprocessed ==
    /\ calls # << >>
    /\ \A i \in DOMAIN calls : calls[i].unprocessed # << >>

\* the innermost BatchWriter call holds an error of the store
HoldsError ==
    /\ stack # << >>
    /\ stack[Len(stack)].err # Nil

\* while the store has reported unprocessed items on every call, BatchWriter
\* has not returned and every call was made one level deeper than the last
C38_KeepsRecursing ==
    (job = "batch" /\ AlwaysUnprocessed) =>
        /\ bwResult = << >>
        /\ Len(stack) = Len(calls) + 1
        /\ \A i \in DOMAIN calls : calls[i].depth = i

\* C38: BatchWriter termination.  BatchWriter returns whenever the store
\* returns an error or eventually reports no unprocessed items for every
\* resubmitted group: every run returns, and after an error of the store no
\* further batch-write call is made.  As long as the store reports at least
\* one unprocessed item on every call, BatchWriter does not return and each
\* call is issued from one recursion level deeper than the one before.
C38_Termination ==
    /\ <>BatchReturned
    /\ [][ HoldsError => calls' = calls ]_vars
    /\ []C38_KeepsRecursing

\* BatchWriter has returned the store's error after two calls in a row
\* reported unprocessed items, the second from the second recursion level
C38_Witness ==
    /\ BatchReturned
    /\ bwResult[2] # Nil
    /\ Len(calls) >= MaxRetries + 1
    /\ \A i \in 1 .. MaxRetries :
          calls[i].unprocessed # << >> /\ calls[i].depth = i

\* ---------------------------------------------------------------------
\* the writer workers inside onCopyData, between the increment of line 81
\* and the deferred decrement of line 83
InPut == { k \in Writers : tpc[k] \in { "put", "report" } }

\* C39: live-writer counter.  In every state of a running CopyTable job the
\* counter equals the number of writer workers between the increment and
\* the decrement of onCopyData, so it lies between 0 and the worker count,
\* and it is 0 whenever the completion signal has been raised.
C39_CounterInvariant ==
    (job = "copy" /\ ~panicked) =>
        /\ working = Cardinality(InPut)
        /\ working >= 0
        /\ working <= Workers
        /\ complete => working = 0

\* every writer worker is inside a put at once, one of them about to report
\* the error of its put
C39_Witness ==
    /\ job = "copy"
    /\ ~panicked
    /\ InPut = Writers
    /\ working = Workers
    /\ \E k \in Writers : tpc[k] = "report"

====
